---------------------------- MODULE Spec2Model ----------------------------
(***************************************************************************)
(* Model of the static bytecode debloater: the abstract domains (SignSet,  *)
(* Interval), the named-constraint abstract state, the transfer function   *)
(* `step`, the state set / worklist and the driver                         *)
(* `static_bytecode_analysis` of debloater/static/abstract_interpreter.py. *)
(***************************************************************************)
EXTENDS Integers, Sequences, FiniteSets, TLC

VARIABLES
  \* ---- driver state (static_bytecode_analysis) ----
  method_list,   \* the methods to analyse, in order
  mi,            \* index in method_list of the method being analysed
  per_inst,      \* StateSet.per_inst : offset -> AState
  needswork,     \* StateSet.needswork : set of offsets
  states,        \* the list manystep is building / the driver is iterating
  final,         \* terminals collected for the current method
  op_hit,        \* module global: opcodes (offsets) hit
  dead_store,    \* module global: local index -> offset of the store opcode
  dead_arg,      \* module global: parameter indices (keys of the dict)
  phase,         \* "manystep" | "join" | "done" | "crashed"
  unreachable_offset_by_method,  \* method -> sequence of offsets
  dead_args_mapping,             \* method -> set of parameter indices
  json_data,     \* the value static_bytecode_analysis returns
  loaded,        \* history: value names pushed by a Load step (this method)
  nsteps,        \* history: number of step calls made for this method
  \* ---- one call of a pure function of the abstract domains ----
  call,          \* the call: function, domain and arguments
  ret            \* its result

vars == <<method_list, mi, per_inst, needswork, states, final, op_hit,
          dead_store, dead_arg, phase, unreachable_offset_by_method,
          dead_args_mapping, json_data, loaded, nsteps, call, ret>>

driverVars == <<method_list, mi, per_inst, needswork, states, final, op_hit,
          dead_store, dead_arg, phase, unreachable_offset_by_method,
          dead_args_mapping, json_data, loaded, nsteps>>

pureVars == <<call, ret>>

---------------------------------------------------------------------------
(* Bounds of the model *)

\* concrete integers drawn for the domain functions are MinVal..MaxVal
MaxVal == 2
MinVal == -MaxVal
\* the driver makes at most MaxSteps calls of step per method
MaxSteps == 40
\* static_bytecode_analysis is called with at most MaxMethods methods
MaxMethods == 2
\* an iteration budget (number of step calls) a bounded analysis would allow
IterationBudget == 30

---------------------------------------------------------------------------
(* Numbers: Python int/float values as fractions <<n, d>> with d > 0;      *)
(* float('inf') is <<1,0>>, -inf is <<-1,0>>, nan is <<0,0>>.              *)

Abs(i) == IF i < 0 THEN -i ELSE i

RECURSIVE GCD(_, _)
GCD(a, b) == IF b = 0 THEN a ELSE GCD(b, a % b)

Norm(n, d) ==
  LET s == IF d < 0 THEN -1 ELSE 1
      g == GCD(Abs(n), Abs(d))
  IN  <<(s * n) \div g, (s * d) \div g>>

Num(i) == <<i, 1>>
PInf == <<1, 0>>
NInf == <<-1, 0>>
NaN == <<0, 0>>

IsNaN(a) == a = NaN
IsInf(a) == a[2] = 0 /\ a[1] # 0
IsZero(a) == a[1] = 0 /\ a[2] # 0
SignOf(a) == IF a[1] > 0 THEN 1 ELSE IF a[1] < 0 THEN -1 ELSE 0

\* a < b ; every comparison with nan is False
Lt(a, b) ==
  /\ ~IsNaN(a) /\ ~IsNaN(b) /\ a # b
  /\ IF a = NInf \/ b = PInf THEN TRUE
     ELSE IF a = PInf \/ b = NInf THEN FALSE
     ELSE a[1] * b[2] < b[1] * a[2]
Eq(a, b) == ~IsNaN(a) /\ ~IsNaN(b) /\ a = b
Le(a, b) == Lt(a, b) \/ Eq(a, b)
Gt(a, b) == Lt(b, a)
Ge(a, b) == Le(b, a)

\* Python min(a, b) / max(a, b): the first argument unless the second beats it
Min2(a, b) == IF Lt(b, a) THEN b ELSE a
Max2(a, b) == IF Gt(b, a) THEN b ELSE a
\* Python min(list) / max(list) of four candidates
Min4(a, b, c, d) == Min2(Min2(Min2(a, b), c), d)
Max4(a, b, c, d) == Max2(Max2(Max2(a, b), c), d)

Neg(a) == <<-a[1], a[2]>>

Add(a, b) ==
  IF IsNaN(a) \/ IsNaN(b) THEN NaN
  ELSE IF IsInf(a) THEN (IF IsInf(b) /\ b # a THEN NaN ELSE a)
  ELSE IF IsInf(b) THEN b
  ELSE Norm(a[1] * b[2] + b[1] * a[2], a[2] * b[2])

Sub(a, b) == Add(a, Neg(b))

Mul(a, b) ==
  IF IsNaN(a) \/ IsNaN(b) THEN NaN
  ELSE IF IsInf(a) \/ IsInf(b)
       THEN (IF IsZero(a) \/ IsZero(b) THEN NaN
             ELSE <<SignOf(a) * SignOf(b), 0>>)
  ELSE Norm(a[1] * b[1], a[2] * b[2])

\* Python true division a / b, for b # 0
TrueDiv(a, b) ==
  IF IsNaN(a) \/ IsNaN(b) THEN NaN
  ELSE IF IsInf(a) THEN (IF IsInf(b) THEN NaN ELSE <<SignOf(a) * SignOf(b), 0>>)
  ELSE IF IsInf(b) THEN Num(0)
  ELSE Norm(a[1] * b[2], a[2] * b[1])

---------------------------------------------------------------------------
(* sign_abstraction.py *)

Ops == {"eq", "ne", "lt", "le", "gt", "ge"}

holds(rel, opr) ==
  CASE opr = "lt" -> rel = -1
    [] opr = "le" -> rel \in {-1, 0}
    [] opr = "gt" -> rel = 1
    [] opr = "ge" -> rel \in {1, 0}
    [] opr = "eq" -> rel = 0
    [] opr = "ne" -> rel \in {-1, 1}

Signs == {"+", "-", "0"}

SignSet_top == Signs
SignSet_empty == {}

SignOfInt(x) == IF x = 0 THEN "0" ELSE IF x > 0 THEN "+" ELSE "-"

SignSet_abstract(items) == {SignOfInt(x) : x \in items}

SignSet_contains(s, member) ==
  \/ member = 0 /\ "0" \in s
  \/ member > 0 /\ "+" \in s
  \/ member < 0 /\ "-" \in s

SignSet_le(a, b) == a \subseteq b
SignSet_or(a, b) == a \cup b
SignSet_and(a, b) == a \cap b

compare_table(sx, sy) ==
  CASE sx = "-" /\ sy = "-" -> {-1, 0, 1}
    [] sx = "-" /\ sy = "0" -> {-1}
    [] sx = "-" /\ sy = "+" -> {-1}
    [] sx = "0" /\ sy = "-" -> {1}
    [] sx = "0" /\ sy = "0" -> {0}
    [] sx = "0" /\ sy = "+" -> {-1}
    [] sx = "+" /\ sy = "-" -> {1}
    [] sx = "+" /\ sy = "0" -> {1}
    [] sx = "+" /\ sy = "+" -> {-1, 0, 1}

\* SignSet.constrain: <<true_set, false_set>>
SignSet_constrain(prev, other, op) ==
  LET valid_signs ==
        {sx \in prev : \E sy \in other :
                          \E r \in compare_table(sx, sy) : holds(r, op)}
  IN  <<valid_signs, prev \ valid_signs>>

add_table(sa, sb) ==
  CASE sa = "+" /\ sb = "+" -> {"+"}
    [] sa = "+" /\ sb = "0" -> {"+"}
    [] sa = "+" /\ sb = "-" -> {"-", "0", "+"}
    [] sa = "0" /\ sb = "+" -> {"+"}
    [] sa = "0" /\ sb = "0" -> {"0"}
    [] sa = "0" /\ sb = "-" -> {"-"}
    [] sa = "-" /\ sb = "+" -> {"-", "0", "+"}
    [] sa = "-" /\ sb = "0" -> {"-"}
    [] sa = "-" /\ sb = "-" -> {"-"}

mul_table(sa, sb) ==
  CASE sa = "+" /\ sb = "+" -> {"+"}
    [] sa = "+" /\ sb = "0" -> {"0"}
    [] sa = "+" /\ sb = "-" -> {"-"}
    [] sa = "0" /\ sb = "+" -> {"0"}
    [] sa = "0" /\ sb = "0" -> {"0"}
    [] sa = "0" /\ sb = "-" -> {"0"}
    [] sa = "-" /\ sb = "+" -> {"-"}
    [] sa = "-" /\ sb = "0" -> {"0"}
    [] sa = "-" /\ sb = "-" -> {"+"}

\* SignSet._lift_bin: the union of the table entries (the early return at
\* three signs returns the same set)
SignSet_add(a, b) == UNION {add_table(sa, sb) : sa \in a, sb \in b}
SignSet_mul(a, b) == UNION {mul_table(sa, sb) : sa \in a, sb \in b}

SignSet_neg(a) ==
  {IF sg = "+" THEN "-" ELSE IF sg = "-" THEN "+" ELSE "0" : sg \in a}

SignSet_sub(a, b) == SignSet_add(a, SignSet_neg(b))

SignSet_div(a, b) ==
  {IF sa = "0" THEN "0" ELSE IF sa = sb THEN "+" ELSE "-" :
     <<sa, sb>> \in {pr \in a \X b : pr[2] # "0"}}

\* SignSet.compare : the subset of {True, False}
SignSet_compare(a, b, op) ==
  LET diff == SignSet_sub(a, b)
      rels == (IF "-" \in diff THEN {-1} ELSE {})
              \cup (IF "0" \in diff THEN {0} ELSE {})
              \cup (IF "+" \in diff THEN {1} ELSE {})
  IN  (IF \E r \in rels : holds(r, op) THEN {TRUE} ELSE {})
      \cup (IF \E r \in rels : ~holds(r, op) THEN {FALSE} ELSE {})

---------------------------------------------------------------------------
(* interval_abstraction.py *)

Interval(lo, hi) == [lo |-> lo, hi |-> hi]

Interval_empty == Interval(Num(1), Num(0))
Interval_top == Interval(NInf, PInf)

is_bottom(i) == Gt(i.lo, i.hi)

Interval_of(lo, hi) == IF Gt(lo, hi) THEN Interval_empty ELSE Interval(lo, hi)

SetMin(S) == CHOOSE m \in S : \A x \in S : m <= x
SetMax(S) == CHOOSE m \in S : \A x \in S : m >= x

\* Interval_abstract that keeps the minimum as both ends
Interval_abstract_min(items) ==
  IF items = {} THEN Interval_empty
  ELSE Interval(Num(SetMin(items)), Num(SetMin(items)))

Interval_abstract(items) ==
  IF items = {} THEN Interval_empty
  ELSE Interval(Num(SetMin(items)), Num(SetMax(items)))

\* Interval.__contains__ : lo <= x <= hi
Interval_contains(i, x) == ~is_bottom(i) /\ Le(i.lo, Num(x)) /\ Le(Num(x), i.hi)

\* Interval.concrete_value ; None is the string "None"
concrete_value(i) ==
  IF is_bottom(i) THEN "None"
  ELSE IF Eq(i.lo, i.hi) THEN i.lo
  ELSE "None"

Interval_add(a, b) ==
  IF is_bottom(a) \/ is_bottom(b) THEN Interval_empty
  ELSE Interval(Add(a.lo, b.lo), Add(a.hi, b.hi))

Interval_sub(a, b) ==
  IF is_bottom(a) \/ is_bottom(b) THEN Interval_empty
  ELSE Interval(Sub(a.lo, b.hi), Sub(a.hi, b.lo))

\* Interval_mul from the products of the matching ends only
Interval_mul_ends(a, b) ==
  IF is_bottom(a) \/ is_bottom(b) THEN Interval_empty
  ELSE Interval(Mul(a.lo, b.lo), Mul(a.hi, b.hi))

Interval_mul(a, b) ==
  IF is_bottom(a) \/ is_bottom(b) THEN Interval_empty
  ELSE LET p1 == Mul(a.lo, b.lo)
           p2 == Mul(a.lo, b.hi)
           p3 == Mul(a.hi, b.lo)
           p4 == Mul(a.hi, b.hi)
       IN  Interval(Min4(p1, p2, p3, p4), Max4(p1, p2, p3, p4))

Interval_div(a, b) ==
  IF is_bottom(a) \/ is_bottom(b) THEN Interval_empty
  ELSE IF Eq(b.lo, Num(0)) /\ Eq(b.hi, Num(0)) THEN Interval_empty
  ELSE IF Le(b.lo, Num(0)) /\ Le(Num(0), b.hi) THEN Interval_top
  ELSE LET q1 == TrueDiv(a.lo, b.lo)
           q2 == TrueDiv(a.lo, b.hi)
           q3 == TrueDiv(a.hi, b.lo)
           q4 == TrueDiv(a.hi, b.hi)
       IN  Interval(Min4(q1, q2, q3, q4), Max4(q1, q2, q3, q4))

\* Interval_rels with a strict test for equality: two intervals that share
\* one end point are not found possibly equal
Interval_rels_strict(x, y) ==
  (IF Lt(x.lo, y.hi) THEN {-1} ELSE {})
  \cup (IF Lt(Max2(x.lo, y.lo), Min2(x.hi, y.hi)) THEN {0} ELSE {})
  \cup (IF Gt(x.hi, y.lo) THEN {1} ELSE {})

\* the relations -1, 0, 1 that Interval.compare finds possible
Interval_rels(x, y) ==
  (IF Lt(x.lo, y.hi) THEN {-1} ELSE {})
  \cup (IF Le(Max2(x.lo, y.lo), Min2(x.hi, y.hi)) THEN {0} ELSE {})
  \cup (IF Gt(x.hi, y.lo) THEN {1} ELSE {})

\* Interval.compare : the subset of {True, False}
Interval_compare(x, y, op) ==
  IF is_bottom(x) \/ is_bottom(y) THEN {}
  ELSE LET rels == Interval_rels(x, y)
       IN  (IF \E r \in rels : holds(r, op) THEN {TRUE} ELSE {})
           \cup (IF \E r \in rels : ~holds(r, op) THEN {FALSE} ELSE {})

\* Interval.compare_floating: the possible relations of x to y
Interval_compare_floating(x, y) ==
  IF is_bottom(x) \/ is_bottom(y) THEN {} ELSE Interval_rels(x, y)

inter(lo1, hi1, lo2, hi2) ==
  LET lo == Max2(lo1, lo2)
      hi == Min2(hi1, hi2)
  IN  IF Gt(lo, hi) THEN Interval_empty ELSE Interval(lo, hi)

\* Interval.constrain: <<true_int, false_int>>
Interval_constrain(prev, other, op) ==
  IF is_bottom(prev) \/ is_bottom(other) THEN <<Interval_empty, Interval_empty>>
  ELSE
  LET a == prev.lo
      b == prev.hi
      c == other.lo
      d == other.hi
      one == Num(1)
  IN CASE op = "lt" ->
            IF Ge(a, d) THEN <<Interval_empty, prev>>
            ELSE LET t_hi == Min2(b, Sub(d, one))
                 IN  <<Interval_of(a, t_hi),
                       IF Lt(t_hi, b) THEN Interval_of(Add(t_hi, one), b)
                       ELSE Interval_empty>>
       [] op = "le" ->
            IF Gt(a, d) THEN <<Interval_empty, prev>>
            ELSE LET t_hi == Min2(b, d)
                 IN  <<Interval_of(a, t_hi),
                       IF Lt(t_hi, b) THEN Interval_of(Add(t_hi, one), b)
                       ELSE Interval_empty>>
       [] op = "gt" ->
            IF Le(b, c) THEN <<Interval_empty, prev>>
            ELSE LET t_lo == Max2(a, Add(c, one))
                 IN  <<Interval_of(t_lo, b),
                       IF Gt(t_lo, a) THEN Interval_of(a, Sub(t_lo, one))
                       ELSE Interval_empty>>
       [] op = "ge" ->
            IF Lt(b, c) THEN <<Interval_empty, prev>>
            ELSE LET t_lo == Max2(a, c)
                 IN  <<Interval_of(t_lo, b),
                       IF Gt(t_lo, a) THEN Interval_of(a, Sub(t_lo, one))
                       ELSE Interval_empty>>
       [] op = "eq" ->
            LET inter_int == inter(a, b, c, d)
            IN  IF is_bottom(inter_int) THEN <<Interval_empty, prev>>
                ELSE IF Le(c, a) /\ Le(b, d) THEN <<prev, Interval_empty>>
                ELSE <<inter_int, prev>>
       [] op = "ne" ->
            IF is_bottom(inter(a, b, c, d)) THEN <<prev, Interval_empty>>
            ELSE IF Eq(a, b) /\ Le(c, a) /\ Le(a, d) THEN <<Interval_empty, prev>>
            ELSE <<prev, prev>>

\* Interval_le without the test for a bottom left operand
Interval_le_noBottom(a, b) ==
  IF is_bottom(b) THEN FALSE
  ELSE Le(b.lo, a.lo) /\ Le(a.hi, b.hi)

Interval_le(a, b) ==
  IF is_bottom(a) THEN TRUE
  ELSE IF is_bottom(b) THEN FALSE
  ELSE Le(b.lo, a.lo) /\ Le(a.hi, b.hi)

\* Interval_or without the tests for bottom operands
Interval_or_noBottom(a, b) ==
  Interval(Min2(a.lo, b.lo), Max2(a.hi, b.hi))

Interval_or(a, b) ==
  IF is_bottom(a) THEN b
  ELSE IF is_bottom(b) THEN a
  ELSE Interval(Min2(a.lo, b.lo), Max2(a.hi, b.hi))

---------------------------------------------------------------------------
(* Opcodes (jpamb/jvm/opcode.py) and the methods given to the analysis.    *)
(* An opcode is identified by its offset, its index in the method's        *)
(* opcode list.                                                            *)

Push(v) == [op |-> "push", value |-> v]
Load(i) == [op |-> "load", index |-> i]
Store(i) == [op |-> "store", index |-> i]
Dup == [op |-> "dup"]
Binary(o) == [op |-> "binary", operant |-> o]
Return(t) == [op |-> "return", type |-> t]
Get == [op |-> "get"]
Ifz(c, t) == [op |-> "ifz", condition |-> c, target |-> t]
If(c, t) == [op |-> "if", condition |-> c, target |-> t]
New(c) == [op |-> "new", classname |-> c]
Goto(t) == [op |-> "goto", target |-> t]
Incr(i, a) == [op |-> "incr", index |-> i, amount |-> a]
NewArray == [op |-> "newarray"]
ArrayStore == [op |-> "array_store"]
ArrayLoad == [op |-> "array_load"]
ArrayLength == [op |-> "arraylength"]
CompareFloating(on) == [op |-> "compare_floating", onnan |-> on]
Negate == [op |-> "negate"]
Cast == [op |-> "cast"]
Throw == [op |-> "throw"]
InvokeStatic == [op |-> "invokestatic"]

Method(params, code) == [params |-> params, code |-> code]

\* code.lines of the decompiled JSON: offset -> source line records
LineEntry(offset, line) == [offset |-> offset, line |-> line]

\* the methods of the analysed class: parameter count and opcode list
Methods ==
  [ identity   |-> Method(1, <<Load(0), Return("int")>>),
    deadArg    |-> Method(1, <<Push(7), Return("int")>>),
    neverJump  |-> Method(0, <<Push(1), Ifz("eq", 4), Push(0), Return("int"),
                               Push(1), Return("int")>>),
    alwaysJump |-> Method(0, <<Push(0), Ifz("eq", 4), Push(0), Return("int"),
                               Push(1), Return("int")>>),
    divZero    |-> Method(0, <<Push(1), Push(0), Binary("div"), Return("int")>>),
    divArg     |-> Method(1, <<Push(1), Load(0), Binary("div"), Return("int")>>),
    divBranch  |-> Method(0, <<Push(1), Push(0), Binary("rem"), Push(0),
                               Binary("div"), Ifz("eq", 8), Push(0),
                               Return("int"), Push(1), Return("int")>>),
    deadStore  |-> Method(1, <<Push(5), Store(1), Push(7), Store(1), Load(1),
                               Return("int")>>),
    countUp    |-> Method(1, <<Push(0), Store(1), Incr(1, 1), Load(1), Load(0),
                               If("lt", 2), Load(1), Return("int")>>),
    negated    |-> Method(1, <<Load(0), Negate, Return("int")>>),
    thrower    |-> Method(1, <<Load(0), Ifz("ne", 4), New("java/lang/RuntimeException"),
                               Throw, Push(1), Return("int")>>),
    storeOrLoad |-> Method(1, <<Push(0), Store(1), Push(7), Load(0),
                               Ifz("eq", 7), Store(1), Return("void"),
                               Load(1), Return("int")>>),
    sumOfSums  |-> Method(0, <<Push(1), Push(2), Binary("add"), Push(1),
                               Push(2), Binary("mul"), Binary("sub"),
                               Return("int")>>),
    asserted   |-> Method(1, <<Load(0), Ifz("gt", 3), New("java/lang/AssertionError"),
                               Return("void")>>),
    secondArg  |-> Method(2, <<Load(1), Return("int")>>),
    loopStore  |-> Method(1, <<Push(0), Store(1), Load(1), Store(1), Load(0),
                               Ifz("ne", 2), Return("void")>>),
    storeArg   |-> Method(1, <<Push(1), Store(0), Load(0), Return("int")>>),
    negArray   |-> Method(0, <<Push(-1), NewArray, Return("int")>>),
    argArray   |-> Method(1, <<Load(0), NewArray, Return("int")>>),
    arrayOob   |-> Method(0, <<Push(1), NewArray, Store(0), Load(0), Push(5),
                               Push(7), ArrayStore, Load(0), Push(5), ArrayLoad,
                               Return("int")>>),
    arrayMiss  |-> Method(0, <<Push(1), NewArray, Push(3), ArrayLoad,
                               Return("int")>>),
    arrayLen   |-> Method(0, <<Push(2), NewArray, ArrayLength, Return("int")>>),
    getFlag    |-> Method(0, <<Get, Return("int")>>),
    joinPush   |-> Method(1, <<Load(0), Ifz("eq", 4), Push(1), Goto(5), Push(2),
                               Return("int")>>),
    arrayJoin  |-> Method(1, <<Push(1), NewArray, Store(1), Load(0),
                               Ifz("eq", 5), Push(0), Return("int")>>),
    spin       |-> Method(1, <<Load(0), Ifz("ne", 0), Push(0), Return("int")>>),
    joinNames  |-> Method(1, <<Load(0), Ifz("eq", 4), Push(1), Goto(5), Load(0),
                               Return("int")>>) ]

MethodNames == DOMAIN Methods

\* the line table of each method in the decompiled class JSON
LinesTable(m) ==
  CASE m = "neverJump" -> <<LineEntry(0, 5), LineEntry(2, 6), LineEntry(4, 8)>>
    [] m = "alwaysJump" -> <<LineEntry(0, 15), LineEntry(2, 16), LineEntry(4, 18)>>
    [] m = "deadStore" -> <<LineEntry(0, 20), LineEntry(2, 21), LineEntry(4, 22)>>
    [] m = "negated" -> <<LineEntry(0, 30), LineEntry(2, 30)>>
    [] m = "storeOrLoad" -> <<LineEntry(0, 40), LineEntry(2, 41), LineEntry(5, 42),
                              LineEntry(7, 44)>>
    [] OTHER -> <<LineEntry(0, 1)>>

\* the opcode at an offset of a method (offsets start at 0)
opcode_at(m, offset) == Methods[m].code[offset + 1]
Offsets(m) == 0 .. (Len(Methods[m].code) - 1)

---------------------------------------------------------------------------
(* Abstract states (abstract_interpreter.py): value names are tuples       *)
(* <<prefix, number, ...>> standing for the strings "prefix_number_..."    *)

EmptyMap == [x \in {} |-> 0]
Put(f, k, v) == [x \in (DOMAIN f) \cup {k} |-> IF x = k THEN v ELSE f[x]]
Del(f, k) == [x \in (DOMAIN f) \ {k} |-> f[x]]

Name(prefix, n) == <<prefix, n>>
startswith(name, prefix) == name[1] = prefix

PerVarFrame(locals, stack, pc) == [locals |-> locals, stack |-> stack, pc |-> pc]
AState(heap, constraints, frames) ==
  [heap |-> heap, constraints |-> constraints, frames |-> frames]

\* state.frames.peek()
peek(state) == state.frames[Len(state.frames)]
\* list without its last element / its last n elements
Front(s) == SubSeq(s, 1, Len(s) - 1)
DropLast(s, n) == SubSeq(s, 1, Len(s) - n)
Last(s) == s[Len(s)]

\* the outcomes step returns: a successor state or a terminal string
NoState == AState(EmptyMap, EmptyMap, <<>>)
StateOut(st) == [kind |-> "state", term |-> "", st |-> st]
TermOut(t) == [kind |-> "term", term |-> t, st |-> NoState]

\* the module globals step reads and writes
Globals(oh, ds, da) == [op_hit |-> oh, dead_store |-> ds, dead_arg |-> da]

\* what one call of step does: the list it returns (returned = FALSE when it
\* returns None), the exception it raises (err), the state it was given as
\* the call leaves it, the globals as it leaves them, the names Load pushed
StepResult(outs, state, g) ==
  [outs |-> outs, returned |-> TRUE, err |-> "", state |-> state, g |-> g,
   pushed |-> {}]
StepRaises(e, state, g) ==
  [outs |-> <<>>, returned |-> FALSE, err |-> e, state |-> state, g |-> g,
   pushed |-> {}]
StepNone(state, g) ==
  [outs |-> <<>>, returned |-> FALSE, err |-> "", state |-> state, g |-> g,
   pushed |-> {}]

\* the value NewArray binds to an array name: the list [addr, size_val]
ArrayRef(addr, size_val) == [addr |-> addr, size_val |-> size_val]
\* the value CompareFloating binds to its result name
FloatCmpResult(left_name, right_name, possible_rels, onnan) ==
  [left_name |-> left_name, right_name |-> right_name,
   possible_rels |-> possible_rels, onnan |-> onnan]
\* the value bound to a name is an Interval (not the list of an array, not a
\* FloatCmpResult)
IsInterval(v) == "lo" \in DOMAIN v
IsFloatCmpResult(v) == "possible_rels" \in DOMAIN v
\* f"{arr}_{index}" for an array name and the concrete value of an index
\* (None when the index has no single value)
ElemName(arr, index) ==
  IF is_bottom(index) \/ ~Eq(index.lo, index.hi) THEN <<"arrNone", arr[2]>>
  ELSE <<arr[1], arr[2], index.lo[1]>>
\* a value (not a name) pushed on the stack
ValueEntry(v) ==
  IF IsInterval(v) THEN <<"Interval", v.lo, v.hi>>
  ELSE <<"list", v.addr, v.size_val>>
\* the characters of the string "negative size"
negative_size == <<"n", "e", "g", "a", "t", "i", "v", "e", " ", "s", "i", "z", "e">>

\* mk_successor: a deep copy of state with the top frame (and optionally the
\* constraints) replaced
mk_successor(state, new_frame, constraints) ==
  [state EXCEPT !.frames = Append(Front(state.frames), new_frame),
                !.constraints = constraints]

---------------------------------------------------------------------------
(* step: the transfer function, one definition per case of its match.      *)
(* Each takes the state stored at the program point (step receives the     *)
(* stored object itself), the opcode, its offset and the globals.          *)

\* refine_for_rels of float_conditional: acc = Interval.empty(), then
\* acc = acc | t_left for the relations of rels in the order given
RECURSIVE refine_for_rels_loop(_, _, _)
refine_for_rels_loop(val_l, val_r, rels) ==
  IF rels = <<>> THEN Interval_empty
  ELSE LET r == Last(rels)
           op_name == IF r = -1 THEN "lt" ELSE IF r = 0 THEN "eq" ELSE "gt"
       IN  Interval_or(refine_for_rels_loop(val_l, val_r, Front(rels)),
                       Interval_constrain(val_l, val_r, op_name)[1])
\* for r in rels: a subset of {-1, 0, 1} is iterated as 0, 1, -1
refine_for_rels(val_l, val_r, rels) ==
  refine_for_rels_loop(val_l, val_r,
                       SelectSeq(<<0, 1, -1>>, LAMBDA r : r \in rels))

\* float_conditional(nf, cmp_res, cond): the sides come from the stored
\* relations, the left operand is refined by the join of the refinements
float_conditional(state, g, offset, opr, nf, cmp_res) ==
  LET constraints == state.constraints
      l_name == cmp_res.left_name
      r_name == cmp_res.right_name
      all_rels == cmp_res.possible_rels
  IN
  IF l_name \notin DOMAIN constraints \/ r_name \notin DOMAIN constraints
  THEN StepRaises("KeyError", state, g)
  ELSE
  LET val_l == constraints[l_name]
      val_r == constraints[r_name]
      true_rels == {r \in all_rels : holds(r, opr.condition)}
      false_rels == all_rels \ true_rels
      true_frame == [nf EXCEPT !.pc = opr.target]
      false_frame == [nf EXCEPT !.pc = nf.pc + 1]
      true_succ == mk_successor(state, true_frame,
                                Put(constraints, l_name,
                                    refine_for_rels(val_l, val_r, true_rels)))
      false_succ == mk_successor(state, false_frame,
                                 Put(constraints, l_name,
                                     refine_for_rels(val_l, val_r, false_rels)))
      targets == (IF true_rels # {} THEN <<StateOut(true_succ)>> ELSE <<>>)
                 \o (IF false_rels # {} THEN <<StateOut(false_succ)>> ELSE <<>>)
      g2 == IF false_rels # {} THEN g
            ELSE [g EXCEPT !.op_hit = g.op_hit \ {offset}]
  IN
  \* Interval.constrain reads prev.is_bottom() and then other.is_bottom()
  IF all_rels # {} /\ (~IsInterval(val_l)
                        \/ (~is_bottom(val_l) /\ ~IsInterval(val_r)))
  THEN StepRaises("AttributeError", state, g)
  ELSE StepResult(targets, state, g2)

\* conditional emitting both sides whatever compare returned
conditional_bothSides(state, g, offset, opr, nf, n1, hasN2, n2) ==
  LET constraints == state.constraints IN
  IF (hasN2 /\ n2 \notin DOMAIN constraints) \/ n1 \notin DOMAIN constraints
  THEN StepRaises("KeyError", state, g)
  ELSE IF IsFloatCmpResult(constraints[n1])
  THEN float_conditional(state, g, offset, opr, nf, constraints[n1])
  ELSE IF ~IsInterval(constraints[n1]) \/ (hasN2 /\ ~IsInterval(constraints[n2]))
  THEN StepRaises("AttributeError", state, g)   \* a list has no compare
  ELSE
  LET v2 == IF hasN2 THEN constraints[n2] ELSE Interval_abstract({0})
      v1 == constraints[n1]
      res == Interval_compare(v1, v2, opr.condition)
      cs == Interval_constrain(v1, v2, opr.condition)
      true_frame == [nf EXCEPT !.pc = opr.target]
      false_frame == [nf EXCEPT !.pc = nf.pc + 1]
      true_succ == mk_successor(state, true_frame, Put(constraints, n1, cs[1]))
      false_succ == mk_successor(state, false_frame, Put(constraints, n1, cs[2]))
      targets == <<StateOut(true_succ), StateOut(false_succ)>>
      g2 == IF FALSE \in res THEN g
            ELSE [g EXCEPT !.op_hit = g.op_hit \ {offset}]
  IN  StepResult(targets, state, g2)

\* conditional(nf, n1, cond, n2): hasN2 = FALSE is the call without n2
conditional(state, g, offset, opr, nf, n1, hasN2, n2) ==
  LET constraints == state.constraints IN
  IF (hasN2 /\ n2 \notin DOMAIN constraints) \/ n1 \notin DOMAIN constraints
  THEN StepRaises("KeyError", state, g)
  ELSE IF IsFloatCmpResult(constraints[n1])
  THEN float_conditional(state, g, offset, opr, nf, constraints[n1])
  ELSE IF ~IsInterval(constraints[n1]) \/ (hasN2 /\ ~IsInterval(constraints[n2]))
  THEN StepRaises("AttributeError", state, g)   \* a list has no compare
  ELSE
  LET v2 == IF hasN2 THEN constraints[n2] ELSE Interval_abstract({0})
      v1 == constraints[n1]
      res == Interval_compare(v1, v2, opr.condition)
      cs == Interval_constrain(v1, v2, opr.condition)
      true_frame == [nf EXCEPT !.pc = opr.target]
      false_frame == [nf EXCEPT !.pc = nf.pc + 1]
      true_succ == mk_successor(state, true_frame, Put(constraints, n1, cs[1]))
      false_succ == mk_successor(state, false_frame, Put(constraints, n1, cs[2]))
      targets == (IF TRUE \in res THEN <<StateOut(true_succ)>> ELSE <<>>)
                 \o (IF FALSE \in res THEN <<StateOut(false_succ)>> ELSE <<>>)
      g2 == IF FALSE \in res THEN g
            ELSE [g EXCEPT !.op_hit = g.op_hit \ {offset}]
  IN  StepResult(targets, state, g2)

step_Push(state, g, offset, opr) ==
  LET frame == peek(state)
      val_name == Name("stack", Len(frame.stack))
      \* constraints[val_name] = ... writes into the given state
      constraints == Put(state.constraints, val_name,
                         Interval_abstract({opr.value}))
      state2 == [state EXCEPT !.constraints = constraints]
      nf == [frame EXCEPT !.stack = Append(frame.stack, val_name),
                          !.pc = frame.pc + 1]
  IN  StepResult(<<StateOut(mk_successor(state2, nf, constraints))>>, state2, g)

\* step_Load with the deletion from dead_arg guarded like the one from
\* dead_store (by the "local" prefix): a loaded parameter stays in dead_arg
step_Load_localOnly(state, g, offset, opr) ==
  LET frame == peek(state)
      i == opr.index
  IN  IF i \notin DOMAIN frame.locals
      THEN StepRaises("AttributeError", state, g)
      ELSE
      LET var_name == frame.locals[i]
          nf == [frame EXCEPT !.stack = Append(frame.stack, var_name),
                              !.pc = frame.pc + 1]
          ds == IF startswith(var_name, "local") /\ i \in DOMAIN g.dead_store
                THEN Del(g.dead_store, i) ELSE g.dead_store
          da == IF startswith(var_name, "local") /\ i \in g.dead_arg
                THEN g.dead_arg \ {i} ELSE g.dead_arg
      IN  [StepResult(<<StateOut(mk_successor(state, nf, state.constraints))>>,
                      state, Globals(g.op_hit, ds, da))
             EXCEPT !.pushed = {var_name}]

step_Load(state, g, offset, opr) ==
  LET frame == peek(state)
      i == opr.index
  IN  IF i \notin DOMAIN frame.locals
      THEN StepRaises("AttributeError", state, g)  \* None.startswith
      ELSE
      LET var_name == frame.locals[i]
          nf == [frame EXCEPT !.stack = Append(frame.stack, var_name),
                              !.pc = frame.pc + 1]
          ds == IF startswith(var_name, "local") /\ i \in DOMAIN g.dead_store
                THEN Del(g.dead_store, i) ELSE g.dead_store
          da == IF startswith(var_name, "arg") /\ i \in g.dead_arg
                THEN g.dead_arg \ {i} ELSE g.dead_arg
      IN  [StepResult(<<StateOut(mk_successor(state, nf, state.constraints))>>,
                      state, Globals(g.op_hit, ds, da))
             EXCEPT !.pushed = {var_name}]

step_Dup(state, g, offset, opr) ==
  LET frame == peek(state) IN
  IF Len(frame.stack) = 0 THEN StepRaises("IndexError", state, g)
  ELSE LET nf == [frame EXCEPT !.stack = Append(frame.stack, Last(frame.stack)),
                               !.pc = frame.pc + 1]
       IN  StepResult(<<StateOut(mk_successor(state, nf, state.constraints))>>,
                      state, g)

step_Binary(state, g, offset, opr) ==
  LET frame == peek(state)
      constraints == state.constraints
  IN
  IF Len(frame.stack) < 2 THEN StepRaises("IndexError", state, g)
  ELSE
  LET n2 == Last(frame.stack)
      n1 == frame.stack[Len(frame.stack) - 1]
  IN
  IF n1 \notin DOMAIN constraints \/ n2 \notin DOMAIN constraints
  THEN StepRaises("KeyError", state, g)
  ELSE
  \* new_const.pop(n1) and then new_const.pop(n2): the second pop of one
  \* stack name finds the key gone
  IF n1 = n2 /\ startswith(n1, "stack") THEN StepRaises("KeyError", state, g)
  ELSE IF ~IsInterval(constraints[n1]) \/ ~IsInterval(constraints[n2])
  THEN StepRaises("AttributeError", state, g)   \* a list has no add, sub, ...
  ELSE
  LET v1 == constraints[n1]
      v2 == constraints[n2]
      res == CASE opr.operant = "add" -> Interval_add(v1, v2)
               [] opr.operant = "sub" -> Interval_sub(v1, v2)
               [] opr.operant = "mul" -> Interval_mul(v1, v2)
               [] opr.operant = "div" -> Interval_div(v1, v2)
               [] OTHER -> Interval_top
      res_name == Name("stack", Len(frame.stack))
      new_const == Put(constraints, res_name, res)
      nf == [frame EXCEPT !.stack = Append(DropLast(frame.stack, 2), res_name),
                          !.pc = frame.pc + 1]
  IN  StepResult(<<StateOut(mk_successor(state, nf, new_const))>>, state, g)

step_Return(state, g, offset, opr) ==
  LET frame == peek(state) IN
  IF opr.type # "void" /\ Len(frame.stack) = 0
  THEN StepRaises("IndexError", state, g)
  ELSE IF Len(state.frames) > 1
  THEN LET rest == Front(state.frames)
           caller == Last(rest)
           caller2 == [caller EXCEPT
                         !.stack = IF opr.type # "void"
                                   THEN Append(caller.stack, Last(frame.stack))
                                   ELSE caller.stack,
                         !.pc = caller.pc + 1]
       IN  StepResult(<<StateOut([state EXCEPT
                                    !.frames = Append(Front(rest), caller2)])>>,
                      state, g)
  ELSE StepResult(<<TermOut("ok")>>, state, g)

\* Get pushes the Interval itself, not a name: the stack entry is the tuple
\* <<"Interval", lo, hi>>
step_Get(state, g, offset, opr) ==
  LET frame == peek(state)
      zero == Interval_abstract({0})
      nf == [frame EXCEPT
               !.stack = Append(frame.stack, <<"Interval", zero.lo, zero.hi>>),
               !.pc = frame.pc + 1]
  IN  StepResult(<<StateOut(mk_successor(state, nf, state.constraints))>>,
                 state, g)

step_Ifz(state, g, offset, opr) ==
  LET frame == peek(state) IN
  IF Len(frame.stack) = 0 THEN StepRaises("IndexError", state, g)
  ELSE LET var_name == Last(frame.stack)
           nf == [frame EXCEPT !.stack = Front(frame.stack)]
       IN  conditional(state, g, offset, opr, nf, var_name, FALSE, var_name)

step_New(state, g, offset, opr) ==
  IF opr.classname = "java/lang/AssertionError"
  THEN StepResult(<<TermOut("assertion error")>>, state, g)
  ELSE LET frame == peek(state)
           nf == [frame EXCEPT !.pc = frame.pc + 1]
       IN  StepResult(<<StateOut(mk_successor(state, nf, state.constraints))>>,
                      state, g)

step_If(state, g, offset, opr) ==
  LET frame == peek(state) IN
  IF Len(frame.stack) < 2 THEN StepRaises("IndexError", state, g)
  ELSE LET n2 == Last(frame.stack)
           n1 == frame.stack[Len(frame.stack) - 1]
           nf == [frame EXCEPT !.stack = DropLast(frame.stack, 2)]
       IN  conditional(state, g, offset, opr, nf, n1, TRUE, n2)

step_Store(state, g, offset, opr) ==
  LET frame == peek(state)
      constraints == state.constraints
      i == opr.index
  IN
  IF Len(frame.stack) = 0 THEN StepRaises("IndexError", state, g)
  ELSE IF Last(frame.stack) \notin DOMAIN constraints
  THEN StepRaises("KeyError", state, g)
  ELSE
  LET v_name == Last(frame.stack)
      v == constraints[v_name]
      local_name == IF i \in DOMAIN frame.locals THEN frame.locals[i]
                    ELSE Name("local", i)
      nf == [frame EXCEPT !.stack = Front(frame.stack),
                          !.locals = Put(frame.locals, i, local_name),
                          !.pc = frame.pc + 1]
      new_const == Put(constraints, local_name, v)
      ds == IF ~startswith(local_name, "arg")
            THEN Put(g.dead_store, i, offset) ELSE g.dead_store
  IN  StepResult(<<StateOut(mk_successor(state, nf, new_const))>>, state,
                 Globals(g.op_hit, ds, g.dead_arg))

step_Goto(state, g, offset, opr) ==
  LET frame == peek(state)
      nf == [frame EXCEPT !.pc = opr.target]
  IN  StepResult(<<StateOut(mk_successor(state, nf, state.constraints))>>,
                 state, g)

step_Incr(state, g, offset, opr) ==
  LET frame == peek(state)
      constraints == state.constraints
      i == opr.index
  IN
  IF i \notin DOMAIN frame.locals THEN StepRaises("KeyError", state, g)
  ELSE IF ~IsInterval(constraints[frame.locals[i]])
  THEN StepRaises("AttributeError", state, g)   \* a list has no add
  ELSE
  LET var_name == frame.locals[i]
      v == constraints[var_name]
      res == Interval_add(v, Interval_abstract({opr.amount}))
      const_upd == Put(constraints, var_name, res)
      new_frame == [frame EXCEPT !.pc = frame.pc + 1]
  IN  StepResult(<<StateOut(mk_successor(state, new_frame, const_upd))>>,
                 state, g)

\* NewArray returns the bare string "negative size", not a list: the
\* states.extend(...) of manystep iterates it character by character
step_NewArray(state, g, offset, opr) ==
  LET frame == peek(state)
      constraints == state.constraints
  IN
  IF Len(frame.stack) = 0 THEN StepRaises("IndexError", state, g)
  ELSE
  LET size_val == Last(frame.stack) IN
  IF size_val \notin DOMAIN constraints THEN StepRaises("KeyError", state, g)
  ELSE
  LET size == constraints[size_val] IN
  IF ~IsInterval(size) THEN StepRaises("AttributeError", state, g)
  ELSE IF is_bottom(size) \/ ~Eq(size.lo, size.hi)
  THEN StepRaises("TypeError", state, g)              \* None < 0
  ELSE IF Lt(size.lo, Num(0))
  THEN StepResult([k \in 1 .. Len(negative_size) |-> TermOut(negative_size[k])],
                  state, g)
  ELSE
  LET addr == Cardinality(DOMAIN state.heap)
      arr_name == Name("arr", addr)
      new_heap == Put(state.heap, addr, arr_name)
      new_const == Put(constraints, arr_name, ArrayRef(addr, size_val))
      nf == [frame EXCEPT !.stack = Append(Front(frame.stack), arr_name),
                          !.pc = frame.pc + 1]
  IN  StepResult(<<StateOut([mk_successor(state, nf, new_const)
                               EXCEPT !.heap = new_heap])>>, state, g)

step_ArrayStore(state, g, offset, opr) ==
  LET frame == peek(state)
      constraints == state.constraints
      n == Len(frame.stack)
  IN
  IF n < 3 THEN StepRaises("IndexError", state, g)
  ELSE
  LET value_name == frame.stack[n]
      index_name == frame.stack[n - 1]
      arrRe_name == frame.stack[n - 2]
  IN
  IF {value_name, index_name, arrRe_name} \ DOMAIN constraints # {}
  THEN StepRaises("KeyError", state, g)
  ELSE
  LET value == constraints[value_name]
      index == constraints[index_name]
      arrRef == constraints[arrRe_name]
  IN
  IF IsInterval(arrRef) THEN StepRaises("TypeError", state, g)
  ELSE IF arrRef.addr \notin DOMAIN state.heap
  THEN StepRaises("KeyError", state, g)
  ELSE IF ~IsInterval(index) THEN StepRaises("AttributeError", state, g)
  ELSE
  LET arr == state.heap[arrRef.addr]
      elem_name == ElemName(arr, index)
      new_const == Put(constraints, elem_name, value)
      nf == [frame EXCEPT !.stack = DropLast(frame.stack, 3),
                          !.pc = frame.pc + 1]
  IN  StepResult(<<StateOut(mk_successor(state, nf, new_const))>>, state, g)

\* ArrayLoad pops the index and the array from the frame of the given state
\* (not from its copy nf) and pushes the element value, not a name, on nf
step_ArrayLoad(state, g, offset, opr) ==
  LET frame == peek(state)
      constraints == state.constraints
      n == Len(frame.stack)
      popped(k) == [state EXCEPT
                      !.frames[Len(state.frames)].stack = DropLast(frame.stack, k)]
  IN
  IF n = 0 THEN StepRaises("IndexError", state, g)
  ELSE IF n = 1 THEN StepRaises("IndexError", popped(1), g)
  ELSE
  LET index_name == frame.stack[n]
      arr_name == frame.stack[n - 1]
      state2 == popped(2)
  IN
  IF index_name \notin DOMAIN constraints THEN StepRaises("KeyError", state2, g)
  ELSE IF ~IsInterval(constraints[index_name])
  THEN StepRaises("AttributeError", state2, g)
  ELSE IF arr_name \notin DOMAIN constraints THEN StepRaises("KeyError", state2, g)
  ELSE IF IsInterval(constraints[arr_name]) THEN StepRaises("TypeError", state2, g)
  ELSE IF constraints[arr_name].addr \notin DOMAIN state.heap
  THEN StepRaises("KeyError", state2, g)
  ELSE
  LET arr == state.heap[constraints[arr_name].addr]
      name == ElemName(arr, constraints[index_name])
  IN
  IF name \notin DOMAIN constraints THEN StepRaises("KeyError", state2, g)
  ELSE
  LET val == constraints[name]
      nf == [frame EXCEPT !.stack = Append(frame.stack, ValueEntry(val)),
                          !.pc = frame.pc + 1]
  IN  StepResult(<<StateOut(mk_successor(state2, nf, constraints))>>, state2, g)

step_ArrayLength(state, g, offset, opr) ==
  LET frame == peek(state)
      constraints == state.constraints
  IN
  IF Len(frame.stack) = 0 THEN StepRaises("IndexError", state, g)
  ELSE
  LET arr_name == Last(frame.stack) IN
  IF arr_name \notin DOMAIN constraints THEN StepRaises("KeyError", state, g)
  ELSE IF IsInterval(constraints[arr_name]) THEN StepRaises("TypeError", state, g)
  ELSE
  LET length == constraints[arr_name].size_val
      nf == [frame EXCEPT !.stack = Append(Front(frame.stack), length),
                          !.pc = frame.pc + 1]
  IN  StepResult(<<StateOut(mk_successor(state, nf, constraints))>>, state, g)

\* step(state, domain) with DOMAIN = Interval; m is the method of state's pc
step_CompareFloating(state, g, offset, opr) ==
  LET frame == peek(state)
      constraints == state.constraints
  IN
  IF Len(frame.stack) < 2 THEN StepRaises("IndexError", state, g)
  ELSE
  LET n2 == Last(frame.stack)
      n1 == frame.stack[Len(frame.stack) - 1]
      nf == [frame EXCEPT !.stack = DropLast(frame.stack, 2)]
  IN
  IF n1 \notin DOMAIN constraints \/ n2 \notin DOMAIN constraints
  THEN StepRaises("KeyError", state, g)
  ELSE IF ~IsInterval(constraints[n1])
  THEN StepRaises("AttributeError", state, g)   \* no compare_floating
  ELSE IF ~IsInterval(constraints[n2])
  THEN StepRaises("TypeError", state, g)        \* frozenset(NotImplemented)
  ELSE
  LET res == Interval_compare_floating(constraints[n1], constraints[n2])
      cmp_res == FloatCmpResult(n1, n2, res, opr.onnan)
      new_name == Name("stack", Len(nf.stack))
      new_const == Put(constraints, new_name, cmp_res)
      res_frame == [nf EXCEPT !.stack = Append(nf.stack, new_name),
                              !.pc = nf.pc + 1]
  IN  StepResult(<<StateOut(mk_successor(state, res_frame, new_const))>>,
                 state, g)

\* the match of step on the opcode opr found at offset
step_match(state, g1, offset, opr) ==
  CASE opr.op = "push" -> step_Push(state, g1, offset, opr)
    [] opr.op = "load" -> step_Load(state, g1, offset, opr)
    [] opr.op = "dup" -> step_Dup(state, g1, offset, opr)
    [] opr.op = "binary" -> step_Binary(state, g1, offset, opr)
    [] opr.op = "return" -> step_Return(state, g1, offset, opr)
    [] opr.op = "get" -> step_Get(state, g1, offset, opr)
    [] opr.op = "ifz" -> step_Ifz(state, g1, offset, opr)
    [] opr.op = "new" -> step_New(state, g1, offset, opr)
    [] opr.op = "if" -> step_If(state, g1, offset, opr)
    [] opr.op = "store" -> step_Store(state, g1, offset, opr)
    [] opr.op = "goto" -> step_Goto(state, g1, offset, opr)
    [] opr.op = "incr" -> step_Incr(state, g1, offset, opr)
    [] opr.op = "newarray" -> step_NewArray(state, g1, offset, opr)
    [] opr.op = "array_store" -> step_ArrayStore(state, g1, offset, opr)
    [] opr.op = "array_load" -> step_ArrayLoad(state, g1, offset, opr)
    [] opr.op = "arraylength" -> step_ArrayLength(state, g1, offset, opr)
    [] opr.op = "compare_floating" ->
         step_CompareFloating(state, g1, offset, opr)
    [] OTHER -> StepNone(state, g1)   \* no case matches: returns None

step(m, state, g) ==
  IF Len(state.frames) = 0 THEN StepResult(<<>>, state, g)
  ELSE
  LET offset == peek(state).pc
      opr == opcode_at(m, offset)
      g1 == [g EXCEPT !.op_hit = g.op_hit \cup {offset}]
  IN  step_match(state, g1, offset, opr)

---------------------------------------------------------------------------
(* AState.__ior__ : the in-place join of other into self                   *)

RECURSIVE SortedSeq(_)
SortedSeq(S) == IF S = {} THEN <<>>
                ELSE LET x == SetMin(S) IN <<x>> \o SortedSeq(S \ {x})

\* merge_constraints raises KeyError unless n1 is a key of c_other and n2 a
\* key of c_self: both defaults of dict.get are evaluated; v1 | v2 raises
\* when one of them is the list of an array
merge_constraints_raises(c_self, c_other, n1, n2) ==
  \/ n1 \notin DOMAIN c_other \/ n2 \notin DOMAIN c_self
  \/ ~IsInterval(IF n1 \in DOMAIN c_self THEN c_self[n1] ELSE c_other[n1])
  \/ ~IsInterval(IF n2 \in DOMAIN c_other THEN c_other[n2] ELSE c_self[n2])

merge_constraints(c_self, c_other, n1, n2) ==
  LET v1 == IF n1 \in DOMAIN c_self THEN c_self[n1] ELSE c_other[n1]
      v2 == IF n2 \in DOMAIN c_other THEN c_other[n2] ELSE c_self[n2]
  IN  Interval_or(v1, v2)

\* the accumulator of a merge: the constraints of self, the mapping being
\* merged into, the current value of `location`, and whether it raised
MergeAcc(c, dst, location, err) ==
  [c |-> c, dst |-> dst, location |-> location, err |-> err]

\* resolve_names(n1, n2, location) for key k of dst
resolve_names(acc, c_other, k, n1, n2) ==
  IF merge_constraints_raises(acc.c, c_other, n1, n2)
  THEN [acc EXCEPT !.err = "KeyError"]
  ELSE IF n1 = n2
  THEN [acc EXCEPT !.c = Put(acc.c, n1, merge_constraints(acc.c, c_other, n1, n2))]
  ELSE LET count == Cardinality({n \in DOMAIN acc.c : startswith(n, acc.location)})
           new_name == Name(acc.location, count)
       IN  [acc EXCEPT
              !.c = Put(acc.c, new_name, merge_constraints(acc.c, c_other, n1, n2)),
              !.dst = Put(acc.dst, k, new_name)]

\* one iteration of the loop of merge_mapping, for key k of src
merge_mapping_key(acc0, src, c_other, k) ==
  LET n_other == src[k]
      acc == IF startswith(n_other, "arg") THEN [acc0 EXCEPT !.location = "arg"]
             ELSE acc0
  IN  IF k \in DOMAIN acc.dst
      THEN resolve_names(acc, c_other, k, acc.dst[k], n_other)
      ELSE LET acc1 == [acc EXCEPT !.dst = Put(acc.dst, k, n_other)]
           IN  IF n_other \in DOMAIN acc.c /\ n_other \in DOMAIN c_other
               THEN [acc1 EXCEPT !.c = Put(acc.c, n_other,
                         merge_constraints(acc.c, c_other, n_other, n_other))]
               ELSE IF n_other \notin DOMAIN acc.c /\ n_other \in DOMAIN c_other
               THEN [acc1 EXCEPT !.c = Put(acc.c, n_other, c_other[n_other])]
               ELSE acc1

\* merge_mapping(dst, src, location): the keys of src in ascending order
RECURSIVE merge_mapping_loop(_, _, _, _)
merge_mapping_loop(acc, src, c_other, keys) ==
  IF keys = <<>> \/ acc.err # "" THEN acc
  ELSE merge_mapping_loop(merge_mapping_key(acc, src, c_other, Head(keys)),
                          src, c_other, Tail(keys))

merge_mapping(c_self, dst, src, c_other, location) ==
  merge_mapping_loop(MergeAcc(c_self, dst, location, ""), src, c_other,
                     SortedSeq(DOMAIN src))

\* the loop over the stack slots: c_self[n1] = merge_constraints(n1, n2)
RECURSIVE merge_stack(_, _, _, _, _)
merge_stack(c_self, c_other, s1, s2, i) ==
  IF i > Len(s1) THEN [c |-> c_self, err |-> ""]
  ELSE IF merge_constraints_raises(c_self, c_other, s1[i], s2[i])
  THEN [c |-> c_self, err |-> "KeyError"]
  ELSE merge_stack(Put(c_self, s1[i],
                       merge_constraints(c_self, c_other, s1[i], s2[i])),
                   c_other, s1, s2, i + 1)

Joined(st, err) == [st |-> st, err |-> err]

\* the frames loop of AState.__ior__, from frame i on
RECURSIVE ior_frames(_, _, _)
ior_frames(self, other, i) ==
  IF i > Len(self.frames) THEN Joined(self, "")
  ELSE
  LET f1 == self.frames[i]
      f2 == other.frames[i]
  IN  IF f1.pc # f2.pc THEN Joined(self, "AssertionError")
      ELSE
      LET ml == merge_mapping(self.constraints, f1.locals, f2.locals,
                              other.constraints, "local")
          self1 == [self EXCEPT !.constraints = ml.c,
                                !.frames[i].locals = ml.dst]
      IN  IF ml.err # "" THEN Joined(self1, ml.err)
          ELSE IF Len(f1.stack) # Len(f2.stack)
          THEN Joined(self1, "AssertionError")
          ELSE LET ms == merge_stack(ml.c, other.constraints,
                                     f1.stack, f2.stack, 1)
                   self2 == [self1 EXCEPT !.constraints = ms.c]
               IN  IF ms.err # "" THEN Joined(self2, ms.err)
                   ELSE ior_frames(self2, other, i + 1)

\* AState.__ior__ without its loop over the frames
AState_ior_heapOnly(self, other) ==
  LET mh == merge_mapping(self.constraints, self.heap, other.heap,
                          other.constraints, "heap")
      self1 == [self EXCEPT !.constraints = mh.c, !.heap = mh.dst]
  IN  Joined(self1, mh.err)

AState_ior(self, other) ==
  LET mh == merge_mapping(self.constraints, self.heap, other.heap,
                          other.constraints, "heap")
      self1 == [self EXCEPT !.constraints = mh.c, !.heap = mh.dst]
  IN  IF mh.err # "" THEN Joined(self1, mh.err)
      ELSE IF Len(self.frames) # Len(other.frames)
      THEN Joined(self1, "ValueError")        \* zip(..., strict=True)
      ELSE ior_frames(self1, other, 1)

---------------------------------------------------------------------------
(* StateSet *)

StateSet(pi, nw) == [per_inst |-> pi, needswork |-> nw, err |-> ""]

\* StateSet.__ior__ re-enqueueing pc whether or not the join changed anything
StateSet_ior_alwaysWork(sts, astate) ==
  LET pc == peek(astate).pc IN
  IF pc \notin DOMAIN sts.per_inst
  THEN [sts EXCEPT !.per_inst = Put(sts.per_inst, pc, astate),
                   !.needswork = sts.needswork \cup {pc}]
  ELSE
  LET old == sts.per_inst[pc]
      j == AState_ior(old, astate)
      new_state == j.st
  IN  IF j.err # "" THEN [sts EXCEPT !.err = j.err]
      ELSE [sts EXCEPT !.per_inst = Put(sts.per_inst, pc, new_state),
                       !.needswork = sts.needswork \cup {pc}]

\* StateSet.__ior__ : sts |= astate
StateSet_ior(sts, astate) ==
  LET pc == peek(astate).pc IN
  IF pc \notin DOMAIN sts.per_inst
  THEN [sts EXCEPT !.per_inst = Put(sts.per_inst, pc, astate),
                   !.needswork = sts.needswork \cup {pc}]
  ELSE
  LET old == sts.per_inst[pc]
      j == AState_ior(old, astate)
      new_state == j.st
  IN  IF j.err # "" THEN [sts EXCEPT !.err = j.err]
      ELSE IF new_state # old
      THEN [sts EXCEPT !.per_inst = Put(sts.per_inst, pc, new_state),
                       !.needswork = sts.needswork \cup {pc}]
      ELSE sts

\* initialstate_from_method: the state set and the seeded dead_arg
initialstate_from_method(m) ==
  LET params == 0 .. (Methods[m].params - 1)
      constraints == [n \in {Name("arg", i) : i \in params} |-> Interval_top]
      locals == [i \in params |-> Name("arg", i)]
      start_frame == PerVarFrame(locals, <<>>, 0)
      state == AState(EmptyMap, constraints, <<start_frame>>)
  IN  StateSet(Put(EmptyMap, 0, state), {0})

---------------------------------------------------------------------------
(* static/utils/json_utils.py *)

\* _build_offset_to_line(lines_table)(offset); the tables are sorted by offset
offset_to_lines(entries, offset) ==
  LET before == {i \in 1 .. Len(entries) : entries[i].offset <= offset} IN
  IF entries = <<>> \/ before = {} THEN {}
  ELSE LET prev_idx == SetMax(before)
           cur_line == entries[prev_idx].line
       IN  IF prev_idx + 1 <= Len(entries)
              /\ entries[prev_idx + 1].line > cur_line
           THEN cur_line .. (entries[prev_idx + 1].line - 1)
           ELSE {cur_line}

\* dead_indices_to_lines_for_method: the sorted list of dead lines
dead_indices_to_lines_for_method(m, dead_indices) ==
  SortedSeq(UNION {offset_to_lines(LinesTable(m), idx) :
                     idx \in {i \in dead_indices : 0 <= i /\ i < Len(Methods[m].code)}})

\* dead_indices_to_lines_in_class: dead_args is printed and dropped
dead_indices_to_lines_in_class(dead_indices_by_method, dead_args) ==
  [name \in MethodNames \cap DOMAIN dead_indices_by_method |->
     [lines |-> dead_indices_to_lines_for_method(name,
                   {dead_indices_by_method[name][i] :
                      i \in 1 .. Len(dead_indices_by_method[name])})]]

---------------------------------------------------------------------------
(* static_bytecode_analysis: the per-method loop, as operations on the     *)
(* record of the analysis of one method                                    *)

Analysis(sts, sq, fin, g, ph, ld, n) ==
  [per_inst |-> sts.per_inst, needswork |-> sts.needswork, states |-> sq,
   final |-> fin, g |-> g, phase |-> ph, loaded |-> ld, nsteps |-> n]

\* sts = initialstate_from_method(method, DOMAIN); final = set()
BeginMethod(m, g) ==
  Analysis(initialstate_from_method(m), <<>>, {},
           [g EXCEPT !.dead_arg = g.dead_arg \cup (0 .. (Methods[m].params - 1))],
           "manystep", {}, 0)

\* one iteration of the loop of manystep: pop pc, step its state, extend
DoStep(m, A, pc) ==
  LET r == step(m, A.per_inst[pc], A.g)
      rest == A.needswork \ {pc}
  IN  [A EXCEPT !.needswork = rest,
                !.per_inst = Put(A.per_inst, pc, r.state),
                !.states = IF r.returned THEN A.states \o r.outs ELSE A.states,
                !.g = r.g,
                !.loaded = A.loaded \cup r.pushed,
                !.nsteps = A.nsteps + 1,
                !.phase = IF r.err # "" THEN "crashed"
                          ELSE IF rest = {} THEN "join" ELSE "manystep"]

\* one iteration of `for s in manystep(...)`: final.add(s) or sts |= s
DoJoin(A) ==
  LET s == Head(A.states) IN
  IF s.kind = "term"
  THEN [A EXCEPT !.final = A.final \cup {s.term}, !.states = Tail(A.states)]
  ELSE LET sts == StateSet_ior(StateSet(A.per_inst, A.needswork), s.st)
       IN  IF sts.err # "" THEN [A EXCEPT !.phase = "crashed"]
           ELSE [A EXCEPT !.per_inst = sts.per_inst,
                          !.needswork = sts.needswork,
                          !.states = Tail(A.states)]

\* the lists computed after the loop
not_hit(m, g) ==
  SortedSeq({idx \in Offsets(m) : idx \notin g.op_hit})
  \o SortedSeq({idx \in Offsets(m) :
                  \E i \in DOMAIN g.dead_store : g.dead_store[i] = idx})

---------------------------------------------------------------------------
(* The driver as a state machine *)

G == Globals(op_hit, dead_store, dead_arg)
A == Analysis(StateSet(per_inst, needswork), states, final, G, phase,
              loaded, nsteps)
method == method_list[mi]

SetAnalysis(B) ==
  /\ per_inst' = B.per_inst
  /\ needswork' = B.needswork
  /\ states' = B.states
  /\ final' = B.final
  /\ op_hit' = B.g.op_hit
  /\ dead_store' = B.g.dead_store
  /\ dead_arg' = B.g.dead_arg
  /\ phase' = B.phase
  /\ loaded' = B.loaded
  /\ nsteps' = B.nsteps

NoCall == [fn |-> "none"]

MethodLists == UNION {[1 .. n -> MethodNames] : n \in 1 .. MaxMethods}

Init ==
  /\ method_list \in MethodLists
  /\ mi = 0
  /\ per_inst = EmptyMap
  /\ needswork = {}
  /\ states = <<>>
  /\ final = {}
  /\ op_hit = {}
  /\ dead_store = EmptyMap
  /\ dead_arg = {}
  /\ phase = "next"
  /\ unreachable_offset_by_method = EmptyMap
  /\ dead_args_mapping = EmptyMap
  /\ json_data = EmptyMap
  /\ loaded = {}
  /\ nsteps = 0
  /\ call = NoCall
  /\ ret = NoCall

\* the driver at rest, while a function of the domains is called on its own
DriverIdle ==
  /\ method_list = <<>>
  /\ mi = 0
  /\ per_inst = EmptyMap
  /\ needswork = {}
  /\ states = <<>>
  /\ final = {}
  /\ op_hit = {}
  /\ dead_store = EmptyMap
  /\ dead_arg = {}
  /\ phase = "idle"
  /\ unreachable_offset_by_method = EmptyMap
  /\ dead_args_mapping = EmptyMap
  /\ json_data = EmptyMap
  /\ loaded = {}
  /\ nsteps = 0

\* for m in method_list: the next method starts
StartMethod ==
  /\ phase = "next"
  /\ mi < Len(method_list)
  /\ mi' = mi + 1
  /\ SetAnalysis(BeginMethod(method_list[mi + 1], G))
  /\ UNCHANGED <<method_list, unreachable_offset_by_method, dead_args_mapping,
                 json_data, call, ret>>

\* manystep: pop one program point and step it
StepOne ==
  /\ phase = "manystep"
  /\ nsteps < MaxSteps
  /\ \E pc \in needswork : SetAnalysis(DoStep(method, A, pc))
  /\ UNCHANGED <<method_list, mi, unreachable_offset_by_method,
                 dead_args_mapping, json_data, call, ret>>

\* the driver takes the next outcome of the list manystep returned
JoinOne ==
  /\ phase = "join"
  /\ states # <<>>
  /\ SetAnalysis(DoJoin(A))
  /\ UNCHANGED <<method_list, mi, unreachable_offset_by_method,
                 dead_args_mapping, json_data, call, ret>>

\* while sts.needswork: another round
EndRound ==
  /\ phase = "join"
  /\ states = <<>>
  /\ needswork # {}
  /\ phase' = "manystep"
  /\ UNCHANGED <<method_list, mi, per_inst, needswork, states, final, op_hit,
                 dead_store, dead_arg, unreachable_offset_by_method,
                 dead_args_mapping, json_data, loaded, nsteps, call, ret>>

\* FinishMethod without the three clear() calls
FinishMethod_keepsGlobals ==
  /\ phase = "join"
  /\ states = <<>>
  /\ needswork = {}
  /\ unreachable_offset_by_method' =
       Put(unreachable_offset_by_method, method, not_hit(method, G))
  /\ dead_args_mapping' = Put(dead_args_mapping, method, dead_arg)
  /\ phase' = "next"
  /\ UNCHANGED <<method_list, mi, per_inst, needswork, states, final, op_hit,
                 dead_arg, dead_store, json_data, loaded, nsteps, call, ret>>

\* the worklist is empty: record the method's results, clear the globals
FinishMethod ==
  /\ phase = "join"
  /\ states = <<>>
  /\ needswork = {}
  /\ unreachable_offset_by_method' =
       Put(unreachable_offset_by_method, method, not_hit(method, G))
  /\ dead_args_mapping' = Put(dead_args_mapping, method, dead_arg)
  /\ op_hit' = {}
  /\ dead_arg' = {}
  /\ dead_store' = EmptyMap
  /\ phase' = "next"
  /\ UNCHANGED <<method_list, mi, per_inst, needswork, states, final,
                 json_data, loaded, nsteps, call, ret>>

\* after the last method: json_data is built and returned
ReturnJson ==
  /\ phase = "next"
  /\ mi = Len(method_list)
  /\ json_data' = dead_indices_to_lines_in_class(unreachable_offset_by_method,
                                                 dead_args_mapping)
  /\ phase' = "done"
  /\ UNCHANGED <<method_list, mi, per_inst, needswork, states, final, op_hit,
                 dead_store, dead_arg, unreachable_offset_by_method,
                 dead_args_mapping, loaded, nsteps, call, ret>>

Next == StartMethod \/ StepOne \/ JoinOne \/ EndRound \/ FinishMethod
        \/ ReturnJson

Spec == Init /\ [][Next]_vars

---------------------------------------------------------------------------
(* The functions of the abstract domains called on their own: the          *)
(* arguments are drawn from the elements over MinVal..MaxVal               *)

Ints == MinVal .. MaxVal
\* the integers the concretisations are sampled on
TestInts == (MinVal - 1) .. (MaxVal + 1)

SignSets == SUBSET Signs

LoBounds == {NInf} \cup {Num(i) : i \in Ints}
HiBounds == {Num(i) : i \in Ints} \cup {PInf}
Intervals == {Interval(lo, hi) : lo \in LoBounds, hi \in HiBounds}
\* the elements of the Interval domain: the non-empty ones and empty()
IntervalElems == {i \in Intervals : ~is_bottom(i)} \cup {Interval_empty}

Elems(domain) == IF domain = "SignSet" THEN SignSets ELSE IntervalElems
Domains == {"SignSet", "Interval"}

\* x in av, by the domain's __contains__
Contains(domain, av, x) ==
  IF domain = "SignSet" THEN SignSet_contains(av, x)
  ELSE Interval_contains(av, x)

\* the concrete relation x op y
ConcreteOp(op, x, y) ==
  CASE op = "eq" -> x = y
    [] op = "ne" -> x # y
    [] op = "lt" -> x < y
    [] op = "le" -> x <= y
    [] op = "gt" -> x > y
    [] op = "ge" -> x >= y

ConstrainCall(domain, prev, other, op) ==
  [fn |-> "constrain", domain |-> domain, prev |-> prev, other |-> other,
   op |-> op]

\* the binary operations of a domain
ArithOps == {"add", "sub", "mul", "div"}
DomainOp(domain, opn, a, b) ==
  IF domain = "SignSet"
  THEN CASE opn = "add" -> SignSet_add(a, b)
         [] opn = "sub" -> SignSet_sub(a, b)
         [] opn = "mul" -> SignSet_mul(a, b)
         [] opn = "div" -> SignSet_div(a, b)
         [] opn = "or" -> SignSet_or(a, b)
  ELSE CASE opn = "add" -> Interval_add(a, b)
         [] opn = "sub" -> Interval_sub(a, b)
         [] opn = "mul" -> Interval_mul(a, b)
         [] opn = "div" -> Interval_div(a, b)
         [] opn = "or" -> Interval_or(a, b)
\* a <= b, by the domain's __le__
Leq(domain, a, b) ==
  IF domain = "SignSet" THEN SignSet_le(a, b) ELSE Interval_le(a, b)
\* domain.abstract(items)
Abstract(domain, items) ==
  IF domain = "SignSet" THEN SignSet_abstract(items) ELSE Interval_abstract(items)

InitDomain ==
  /\ DriverIdle
  /\ \E d \in Domains :
       \/ call \in {ConstrainCall(d, p, o, op) :
                      p \in Elems(d), o \in Elems(d), op \in Ops}
       \/ call \in {[fn |-> "compare", domain |-> d, a |-> a, b |-> b, op |-> op] :
                      a \in Elems(d), b \in Elems(d), op \in Ops}
       \/ call \in {[fn |-> "arith", domain |-> d, opn |-> opn, a |-> a, b |-> b] :
                      opn \in ArithOps, a \in Elems(d), b \in Elems(d)}
       \/ call \in {[fn |-> "abstract", domain |-> d, opn |-> opn, xs |-> xs, ys |-> ys] :
                      opn \in {"or", "add", "sub", "mul"},
                      xs \in SUBSET Ints, ys \in SUBSET Ints}
       \/ call \in {[fn |-> "join", domain |-> d, a |-> a, b |-> b, c |-> c] :
                      a \in Elems(d), b \in Elems(d), c \in Elems(d)}
  /\ ret = NoCall

\* domain.constrain(prev, other, op)
CallConstrain ==
  /\ call.fn = "constrain"
  /\ ret = NoCall
  /\ LET r == IF call.domain = "SignSet"
              THEN SignSet_constrain(call.prev, call.other, call.op)
              ELSE Interval_constrain(call.prev, call.other, call.op)
     IN  ret' = [fn |-> "constrain", refined_true |-> r[1],
                 refined_false |-> r[2]]
  /\ UNCHANGED <<driverVars, call>>

\* a.compare(b, op)
CallCompare ==
  /\ call.fn = "compare"
  /\ ret = NoCall
  /\ ret' = [fn |-> "compare",
             result |-> IF call.domain = "SignSet"
                        THEN SignSet_compare(call.a, call.b, call.op)
                        ELSE Interval_compare(call.a, call.b, call.op)]
  /\ UNCHANGED <<driverVars, call>>

\* a.add(b), a.sub(b), a.mul(b), a.div(b)
CallArith ==
  /\ call.fn = "arith"
  /\ ret = NoCall
  /\ ret' = [fn |-> "arith",
             result |-> DomainOp(call.domain, call.opn, call.a, call.b)]
  /\ UNCHANGED <<driverVars, call>>

\* domain.abstract(xs) opn domain.abstract(ys), and domain.abstract(xs | ys)
CallAbstract ==
  /\ call.fn = "abstract"
  /\ ret = NoCall
  /\ LET ax == Abstract(call.domain, call.xs)
         ay == Abstract(call.domain, call.ys)
     IN  ret' = [fn |-> "abstract", ax |-> ax, ay |-> ay,
                 result |-> DomainOp(call.domain, call.opn, ax, ay),
                 of_union |-> Abstract(call.domain, call.xs \cup call.ys)]
  /\ UNCHANGED <<driverVars, call>>

\* a | b and its comparisons with a, b and c by __le__
CallJoin ==
  /\ call.fn = "join"
  /\ ret = NoCall
  /\ LET d == call.domain
         joined == DomainOp(d, "or", call.a, call.b)
     IN  ret' = [fn |-> "join", joined |-> joined,
                 a_le_joined |-> Leq(d, call.a, joined),
                 b_le_joined |-> Leq(d, call.b, joined),
                 a_le_c |-> Leq(d, call.a, call.c),
                 b_le_c |-> Leq(d, call.b, call.c),
                 joined_le_c |-> Leq(d, joined, call.c)]
  /\ UNCHANGED <<driverVars, call>>

NextDomain == CallConstrain \/ CallCompare \/ CallArith \/ CallAbstract
              \/ CallJoin

SpecDomain == InitDomain /\ [][NextDomain]_vars

---------------------------------------------------------------------------
(* solutions/interpreter.py: the concrete interpreter. A value is a record *)
(* of its type and its value (an integer, or the heap address of an        *)
(* array); a state has one frame.                                          *)

CInt(v) == [t |-> "int", v |-> v]
CRef(addr) == [t |-> "ref", v |-> addr]

\* Python x // y and x % y for y # 0
FloorDiv(x, y) ==
  LET q == Abs(x) \div Abs(y)
  IN  IF (x < 0) = (y < 0) THEN q
      ELSE IF Abs(x) % Abs(y) = 0 THEN -q ELSE -q - 1
PyMod(x, y) == x - y * FloorDiv(x, y)

\* step(state) of the interpreter: the state it returns, the string it
\* returns (term) or the exception it raises
concrete_step(m, s) ==
  LET opr == opcode_at(m, s.pc)
      stack == s.stack
      n == Len(stack)
      top == stack[n]
      Raise(e) == [kind |-> "raise", term |-> e, st |-> s]
      Term(t) == [kind |-> "term", term |-> t, st |-> s]
      Go(st) == [kind |-> "state", term |-> "", st |-> st]
      Pushed(keep, v) == [s EXCEPT !.stack = Append(DropLast(stack, n - keep), v),
                                   !.pc = s.pc + 1]
      jump(v, w, cond) == ConcreteOp(cond, v, w)
  IN
  CASE opr.op = "push" -> Go(Pushed(n, CInt(opr.value)))
    [] opr.op = "load" ->
         IF opr.index \notin DOMAIN s.locals THEN Raise("KeyError")
         ELSE Go(Pushed(n, s.locals[opr.index]))
    [] opr.op = "dup" ->
         IF n = 0 THEN Raise("IndexError") ELSE Go(Pushed(n, top))
    [] opr.op = "store" ->
         IF n = 0 THEN Raise("IndexError")
         ELSE Go([s EXCEPT !.stack = Front(stack),
                           !.locals = Put(s.locals, opr.index, top),
                           !.pc = s.pc + 1])
    [] opr.op = "binary" ->
         IF n < 2 THEN Raise("IndexError")
         ELSE IF top.t # "int" \/ stack[n - 1].t # "int"
         THEN Raise("AssertionError")
         ELSE LET v2 == top.v
                  v1 == stack[n - 1].v
              IN  IF opr.operant = "div" /\ v2 = 0 THEN Term("divide by zero")
                  ELSE IF opr.operant = "rem" /\ v2 = 0
                  THEN Raise("ZeroDivisionError")
                  ELSE Go(Pushed(n - 2, CInt(
                         CASE opr.operant = "add" -> v1 + v2
                           [] opr.operant = "sub" -> v1 - v2
                           [] opr.operant = "mul" -> v1 * v2
                           [] opr.operant = "div" -> FloorDiv(v1, v2)
                           [] opr.operant = "rem" -> PyMod(v1, v2))))
    [] opr.op = "ifz" ->
         IF n = 0 THEN Raise("IndexError")
         ELSE IF top.t # "int" THEN Raise("NotImplementedError")
         ELSE Go([s EXCEPT !.stack = Front(stack),
                           !.pc = IF jump(top.v, 0, opr.condition)
                                  THEN opr.target ELSE s.pc + 1])
    [] opr.op = "if" ->
         \* two ints: the test isinstance(v2.value, jvm.Int) fails and
         \* `jump` is unbound; two references: only is / isnot are known
         IF n < 2 THEN Raise("IndexError")
         ELSE IF top.t = "ref" /\ stack[n - 1].t = "ref"
         THEN Raise("NotImplementedError")
         ELSE Raise("UnboundLocalError")
    [] opr.op = "goto" -> Go([s EXCEPT !.pc = opr.target])
    [] opr.op = "return" ->
         IF opr.type # "void" /\ n = 0 THEN Raise("IndexError") ELSE Term("ok")
    [] opr.op = "get" -> Go(Pushed(n, CInt(0)))
    [] opr.op = "new" ->
         IF opr.classname = "java/lang/AssertionError"
         THEN Term("assertion error") ELSE Raise("AssertionError")
    [] opr.op = "newarray" ->
         IF n = 0 THEN Raise("IndexError")
         ELSE IF top.t # "int" THEN Raise("AssertionError")
         ELSE IF top.v < 0 THEN Term("negative size")
         ELSE LET addr == Cardinality(DOMAIN s.heap)
              IN  Go([Pushed(n - 1, CRef(addr)) EXCEPT
                        !.heap = Put(s.heap, addr, [k \in 1 .. top.v |-> CInt(0)])])
    [] opr.op = "array_load" ->
         IF n < 2 THEN Raise("IndexError")
         ELSE IF top.t # "int" THEN Raise("AssertionError")
         ELSE IF stack[n - 1].t # "ref" THEN Raise("AssertionError")
         ELSE LET arr == s.heap[stack[n - 1].v]
              IN  IF top.v < 0 \/ top.v >= Len(arr) THEN Term("array out of bounds")
                  ELSE Go(Pushed(n - 2, arr[top.v + 1]))
    [] opr.op = "array_store" ->
         IF n < 3 THEN Raise("IndexError")
         ELSE IF stack[n - 1].t # "int" \/ stack[n - 2].t # "ref"
         THEN Raise("AssertionError")
         ELSE LET addr == stack[n - 2].v
                  arr == s.heap[addr]
                  \* arr[index.value] = value: a negative index counts from the end
                  at == IF stack[n - 1].v < 0 THEN stack[n - 1].v + Len(arr)
                        ELSE stack[n - 1].v
              IN  IF at < 0 \/ at >= Len(arr) THEN Raise("IndexError")
                  ELSE Go([s EXCEPT !.heap[addr][at + 1] = top,
                                    !.stack = DropLast(stack, 3),
                                    !.pc = s.pc + 1])
    [] opr.op = "arraylength" ->
         IF n = 0 THEN Raise("IndexError")
         ELSE IF top.t # "ref" THEN Raise("AssertionError")
         ELSE Go(Pushed(n - 1, CInt(Len(s.heap[top.v]))))
    [] OTHER -> Raise("NotImplementedError")

\* the loop `for x in range(1000): state = step(state)`: the offsets of the
\* opcodes stepped without an exception
RECURSIVE concrete_run(_, _, _, _)
concrete_run(m, s, fuel, executed) ==
  IF fuel = 0 THEN executed
  ELSE LET r == concrete_step(m, s) IN
       IF r.kind = "raise" THEN executed
       ELSE IF r.kind = "term" THEN executed \cup {s.pc}
       ELSE concrete_run(m, r.st, fuel - 1, executed \cup {s.pc})

\* the offsets the interpreter executes on the input `args`
concrete_executed(m, args) ==
  concrete_run(m, [heap |-> EmptyMap,
                   locals |-> [i \in DOMAIN args |-> CInt(args[i])],
                   stack |-> <<>>, pc |-> 0], 1000, {})

---------------------------------------------------------------------------
(* syntactic/call_graph_builder.py: the call graph of the target class.    *)
(* The source file is given by the callees found in the body of each       *)
(* method declaration of the target class.                                 *)

\* a method body holds at most MaxCallees different callee names
MaxCallees == 2

TargetClass == "BloatedMain"
\* the method declarations of the target class (simple names)
DeclaredMethods == {"main", "f", "g", "h"}
\* Method(...).descriptor as _method_descriptor computes it: never empty
Descriptor(mname) == "()I"
\* f"{m.class_name}.{m.methodname}:{m.descriptor}"
MethodIdString(mname) == <<TargetClass, mname, Descriptor(mname)>>

\* graph.get(n, ())
graph_get(graph, n) == IF n \in DOMAIN graph THEN graph[n] ELSE {}

\* collect_reachable: the loop `while stack`, stack held as the set of its
\* entries (the order of the pops does not change `seen`)
RECURSIVE collect_reachable_loop(_, _, _)
collect_reachable_loop(graph, seen, stack) ==
  IF stack = {} THEN seen
  ELSE LET n == CHOOSE x \in stack : TRUE IN
       IF n \in seen THEN collect_reachable_loop(graph, seen, stack \ {n})
       ELSE collect_reachable_loop(graph, seen \cup {n},
                                   (stack \ {n}) \cup graph_get(graph, n))

collect_reachable(graph, roots) == collect_reachable_loop(graph, {}, roots)

\* _extract_methods_and_calls over every method declaration of the file:
\* the attributes of the builder after the loops of analyze
extract_methods_and_calls(bodies) ==
  [call_graph |-> [m \in DOMAIN bodies |-> bodies[m]],
   all_methods_qualified |-> {<<TargetClass, m>> : m \in DOMAIN bodies},
   called_simple |-> UNION {bodies[m] : m \in DOMAIN bodies},
   methods |-> DOMAIN bodies]

\* CallGraphBuilder.analyze: the result dictionary (methods by simple name)
analyze(bodies, method_name) ==
  LET b == extract_methods_and_calls(bodies)
      reachable == collect_reachable(b.call_graph, {method_name})
  IN  [call_graph |-> b.call_graph,
       root_methods |-> {method_name},
       methods_not_in_call_tree |->
         {q[2] : q \in {x \in b.all_methods_qualified : x[2] \notin reachable}},
       all_methods_discovered |-> b.methods,
       methods_never_called |->
         {q[2] : q \in {x \in b.all_methods_qualified :
                           x[2] \notin b.called_simple}}]

method_id_strings_for_target_class(result) ==
  {MethodIdString(m) : m \in result.all_methods_discovered \ {"main"}}

method_id_strings_never_called_in_target(result) ==
  {MethodIdString(m) : m \in result.methods_never_called \ {"main"}}

\* call_graph(main_method_id, class_name): <<called, not_called>>
call_graph(result) ==
  LET all_m == method_id_strings_for_target_class(result)
      not_called == method_id_strings_never_called_in_target(result)
  IN  <<all_m \ not_called, not_called>>

---------------------------------------------------------------------------
(* method_debloater.py: the rewriting of the Java source. A source text is *)
(* the sequence of its lines; a line is a record of what the rewriting     *)
(* reads of it: its kind, the method declaration it lies in, the name it   *)
(* holds (class name, declared method or callee) and the parameter or      *)
(* argument list after that name.                                          *)

SrcLine(kind, meth, name, params) ==
  [kind |-> kind, method |-> meth, name |-> name, params |-> params]

\* the source file of the class: main calls f, nothing calls g
JavaSource ==
  << SrcLine("class", "", TargetClass, <<>>),
     SrcLine("blank", "", "", <<>>),
     SrcLine("sig", "main", "main", <<>>),
     SrcLine("stmt", "main", "f", <<"1", "2">>),
     SrcLine("close", "main", "", <<>>),
     SrcLine("blank", "", "", <<>>),
     SrcLine("sig", "f", "f", <<"int a", "int b">>),
     SrcLine("stmt", "f", "", <<>>),
     SrcLine("stmt", "f", "", <<>>),
     SrcLine("close", "f", "", <<>>),
     SrcLine("blank", "", "", <<>>),
     SrcLine("sig", "g", "g", <<"int a">>),
     SrcLine("stmt", "g", "", <<>>),
     SrcLine("close", "g", "", <<>>),
     SrcLine("close", "", "", <<>>) >>

\* the elements of a sequence at the indices that are not in `drop`
RECURSIVE Without(_, _, _)
Without(sq, drop, i) ==
  IF i > Len(sq) THEN <<>>
  ELSE (IF i \in drop THEN <<>> ELSE <<sq[i]>>) \o Without(sq, drop, i + 1)

\* Debloat.debloat_source: the lines whose 1-based number is not deleted
debloat_source(source_code, delete_lines) == Without(source_code, delete_lines, 1)

\* Debloat.compress_blank_lines: a run of blank lines becomes one blank line
compress_blank_lines(code) ==
  Without(code, {i \in 2 .. Len(code) :
                   code[i].kind = "blank" /\ code[i - 1].kind = "blank"}, 1)

\* _remove_arg_from_signature and _remove_nth_arg_from_calls for one index:
\* the first signature of the method and every call of it lose the entry
remove_arg(source, method_name, arg_index) ==
  LET sigs == {i \in 1 .. Len(source) :
                 source[i].kind = "sig" /\ source[i].name = method_name}
      hit(i) == /\ source[i].name = method_name
                /\ arg_index < Len(source[i].params)
                /\ \/ source[i].kind = "stmt"
                   \/ sigs # {} /\ i = SetMin(sigs)
  IN  [i \in 1 .. Len(source) |->
         IF hit(i)
         THEN [source[i] EXCEPT !.params = Without(@, {arg_index + 1}, 1)]
         ELSE source[i]]

\* remove_args_from_methods: the indices of each method in descending order
RECURSIVE remove_args_desc(_, _, _)
remove_args_desc(source, method_name, indices) ==
  IF indices = {} THEN source
  ELSE remove_args_desc(remove_arg(source, method_name, SetMax(indices)),
                        method_name, indices \ {SetMax(indices)})

RECURSIVE remove_args_from_methods(_, _, _)
remove_args_from_methods(source, spec, todo) ==
  IF todo = {} THEN source
  ELSE LET method_name == CHOOSE mn \in todo : TRUE IN
       remove_args_from_methods(
         remove_args_desc(source, method_name, spec[method_name].args),
         spec, todo \ {method_name})

\* rename_java_class: the first class declaration of old_name is renamed
rename_java_class(source, old_name, new_name) ==
  LET decls == {i \in 1 .. Len(source) :
                  source[i].kind = "class" /\ source[i].name = old_name}
  IN  [i \in 1 .. Len(source) |->
         IF decls # {} /\ i = SetMin(decls)
         THEN [source[i] EXCEPT !.name = new_name] ELSE source[i]]

\* Debloat.remove_methods_by_name: the text it returns, built from
\* self.source_code; m_id.extension.name is the second part of an id string
remove_methods_by_name(source_code, method_names) ==
  LET target == {mid[2] : mid \in method_names}
      lines_to_delete == {i \in 1 .. Len(source_code) :
                            source_code[i].method \in target}
  IN  compress_blank_lines(debloat_source(source_code, lines_to_delete))

\* Debloat.debloat_from_spec: the text written to the output file; the text
\* remove_methods_by_name returns is not assigned
debloat_from_spec(source_code, spec, class_name, not_called_methods) ==
  LET all_lines_to_delete == UNION {spec[mn].lines : mn \in DOMAIN spec}
      debloated1 == debloat_source(source_code, all_lines_to_delete)
      debloated2 == remove_args_from_methods(debloated1, spec, DOMAIN spec)
      removed == IF not_called_methods # {"None"}
                 THEN remove_methods_by_name(source_code, not_called_methods)
                 ELSE <<>>
      debloated3 == rename_java_class(debloated2, class_name,
                                      <<class_name, "Debloated">>)
  IN  [written |-> compress_blank_lines(debloated3), removed |-> removed]

---------------------------------------------------------------------------
(* jpamb/model.py: Prediction.parse and Response.parse. A line of the      *)
(* output is the list line.split(";") of its fields; the text of a         *)
(* prediction is given with what float() and the regular expression of     *)
(* Prediction.parse read of it.                                            *)

\* the output given to Response.parse has at most MaxLines lines
MaxLines == 2

QUERIES == {"*", "assertion error", "divide by zero", "null pointer", "ok",
            "out of bounds"}

\* a prediction text: `percent` when ([^%]*)% matches at its start, `digits`
\* the text float() is applied to, `isfloat` whether float() accepts it and
\* `number` the float it returns
PredText(text, percent, isfloat, number) ==
  [text |-> text, percent |-> percent, isfloat |-> isfloat, number |-> number]
PredTexts ==
  { PredText("1.0", FALSE, TRUE, Num(1)),
    PredText("75%", TRUE, TRUE, Num(75)),
    PredText("100%", TRUE, TRUE, Num(100)),
    PredText("high", FALSE, FALSE, NaN) }

\* Prediction.from_probability: the wager
from_probability(p0) ==
  LET negate == Lt(p0, <<1, 2>>)
      pr == IF negate THEN Sub(Num(1), p0) ELSE p0
      x == IF Eq(pr, Num(1)) THEN PInf
           ELSE TrueDiv(TrueDiv(Sub(Num(1), Mul(Num(2), pr)),
                                Add(Num(-1), pr)), Num(2))
  IN  IF negate THEN Neg(x) ELSE x

\* Prediction.parse: float() raises ValueError on a text that is no number
Prediction_parse(string) ==
  IF ~string.isfloat THEN [raised |-> TRUE, wager |-> NaN]
  ELSE IF string.percent
  THEN [raised |-> FALSE,
        wager |-> from_probability(TrueDiv(string.number, Num(100)))]
  ELSE [raised |-> FALSE, wager |-> string.number]

\* Response.parse: the loop over out.splitlines() from line i on
RECURSIVE Response_parse(_, _, _)
Response_parse(out, i, predictions) ==
  IF i > Len(out) THEN [raised |-> FALSE, predictions |-> predictions]
  ELSE
  LET line == out[i] IN
  IF Len(line) # 2 THEN Response_parse(out, i + 1, predictions)  \* ValueError
  ELSE IF line[1] \notin QUERIES THEN Response_parse(out, i + 1, predictions)
  ELSE LET prediction == Prediction_parse(line[2]) IN
       IF prediction.raised THEN [raised |-> TRUE, predictions |-> predictions]
       ELSE Response_parse(out, i + 1,
                           Put(predictions, line[1], prediction.wager))

---------------------------------------------------------------------------
(* The functions of the syntactic analysis, the rewriting of the source    *)
(* and the parsing of responses called on their own                        *)

CalleeSets == {cs \in SUBSET DeclaredMethods : Cardinality(cs) <= MaxCallees}

\* the specs given to debloat_from_spec: dead statement lines and dead
\* parameter indices of the methods main and f
DebloatSpecs ==
  {[main |-> [lines |-> lm, args |-> {}], f |-> [lines |-> lf, args |-> af]] :
     lm \in SUBSET {4}, lf \in SUBSET {8, 9}, af \in SUBSET {0, 1}}
\* not_called_methods: None ({"None"}) or a list of method id strings
NotCalledLists ==
  {{"None"}} \cup SUBSET {MethodIdString("f"), MethodIdString("g")}

\* the lines of an output: no separator, one or two separators, a known or
\* an unknown query, a number, a percentage or another text as prediction
OutputLines ==
  LET queries == {"ok", "divide by zero", "invalid_query"}
  IN  {<<q>> : q \in queries}
      \cup {<<q, t>> : q \in queries, t \in PredTexts}
      \cup {<<q, t, t>> : q \in {"ok"}, t \in PredTexts}
Outputs == UNION {[1 .. n -> OutputLines] : n \in 0 .. MaxLines}

InitFunctions ==
  /\ DriverIdle
  /\ \/ call \in {[fn |-> "call_graph", bodies |-> b, entry |-> "main"] :
                    b \in [DeclaredMethods -> CalleeSets]}
     \/ call \in {[fn |-> "debloat_from_spec", spec |-> sp, not_called |-> nc] :
                    sp \in DebloatSpecs, nc \in NotCalledLists}
     \/ call \in {[fn |-> "parse", out |-> o] : o \in Outputs}
  /\ ret = NoCall

\* analyzer.analyze()
CallAnalyze ==
  /\ call.fn = "call_graph"
  /\ ret = NoCall
  /\ ret' = [fn |-> "analyze", result |-> analyze(call.bodies, call.entry)]
  /\ UNCHANGED <<driverVars, call>>

\* the rest of call_graph: the two lists of method id strings
CallCallGraph ==
  /\ call.fn = "call_graph"
  /\ ret.fn = "analyze"
  /\ LET r == call_graph(ret.result)
     IN  ret' = [fn |-> "call_graph", called |-> r[1], not_called |-> r[2]]
  /\ UNCHANGED <<driverVars, call>>

\* Debloat(JavaSource).debloat_from_spec(spec, ..., not_called_methods)
CallDebloat ==
  /\ call.fn = "debloat_from_spec"
  /\ ret = NoCall
  /\ LET r == debloat_from_spec(JavaSource, call.spec, TargetClass,
                                call.not_called)
     IN  ret' = [fn |-> "debloat_from_spec", written |-> r.written,
                 removed |-> r.removed]
  /\ UNCHANGED <<driverVars, call>>

\* Response.parse(out)
CallParse ==
  /\ call.fn = "parse"
  /\ ret = NoCall
  /\ LET r == Response_parse(call.out, 1, EmptyMap)
     IN  ret' = [fn |-> "parse", raised |-> r.raised,
                 predictions |-> r.predictions]
  /\ UNCHANGED <<driverVars, call>>

NextFunctions == CallAnalyze \/ CallCallGraph \/ CallDebloat \/ CallParse

SpecFunctions == InitFunctions /\ [][NextFunctions]_vars

---------------------------------------------------------------------------
(* step and StateSet.__ior__ called on their own *)

\* the names and values of the drawn states
StepNames == {Name("arg", 0), Name("local", 1), Name("stack", 0),
              Name("stack", 1)}
StepValues == {Interval_abstract({0}), Interval_abstract({1}), Interval_top}
StepStacks == {<<>>} \cup {<<n>> : n \in StepNames}
                    \cup {<<n1, n2>> : n1 \in StepNames, n2 \in StepNames}
StepLocals == {Put(EmptyMap, 0, Name("arg", 0)),
               Put(Put(EmptyMap, 0, Name("arg", 0)), 1, Name("local", 1))}
\* the offset of the drawn states and the target of the drawn branches
StepPc == 1
StepTarget == 3

\* the states joined: at StepPc, every name bound
JoinValues == {Interval_abstract({0}), Interval_top}
JoinStacks == {<<>>, <<Name("stack", 0)>>, <<Name("arg", 0)>>,
               <<Name("stack", 0), Name("stack", 1)>>}
JoinStates ==
  {AState(EmptyMap, c, <<PerVarFrame(Put(EmptyMap, 0, Name("arg", 0)), st, StepPc)>>) :
     c \in [StepNames -> JoinValues], st \in JoinStacks}

\* the states step is called on: at StepPc, every name bound
StepStates ==
  {AState(EmptyMap, c, <<PerVarFrame(l, st, StepPc)>>) :
     c \in [StepNames -> StepValues], l \in StepLocals, st \in StepStacks}
\* the opcodes found at StepPc
StepOpcodes ==
  {Ifz(c, StepTarget) : c \in Ops} \cup {If(c, StepTarget) : c \in Ops}
  \cup {Incr(0, 1), Incr(1, 1), Store(0), Store(1), Push(1), Load(0),
        Binary("add"), Binary("sub")}

\* the states CompareFloating is called on: two operands on the stack, each
\* the name of a local or the name Push gives at that depth
FloatValues == StepValues \cup {Interval_of(Num(0), Num(1))}
FloatStates ==
  {AState(EmptyMap, c,
          <<PerVarFrame(Put(Put(EmptyMap, 0, Name("arg", 0)), 1, Name("local", 1)),
                        <<n1, n2>>, StepPc)>>) :
     c \in [StepNames -> FloatValues],
     n1 \in {Name("arg", 0), Name("local", 1), Name("stack", 0)},
     n2 \in {Name("arg", 0), Name("local", 1), Name("stack", 1)}}
\* the target of the branch that follows the comparison
FloatTarget == 5

InitStep ==
  /\ DriverIdle
  /\ \/ call \in {[fn |-> "join", stored |-> s, astate |-> t, needswork |-> nw] :
                    s \in JoinStates, t \in JoinStates, nw \in {{}, {StepPc}}}
     \/ call \in {[fn |-> "step", state |-> s, opr |-> o] :
                    s \in StepStates, o \in StepOpcodes}
     \/ call \in {[fn |-> "fcmp", state |-> s, cond |-> c] :
                    s \in FloatStates, c \in Ops}
  /\ ret = NoCall

\* sts |= astate for a state set that stores call.stored at StepPc
CallStateSetJoin ==
  /\ call.fn = "join"
  /\ ret = NoCall
  /\ LET sts == StateSet_ior(StateSet(Put(EmptyMap, StepPc, call.stored),
                                      call.needswork), call.astate)
     IN  ret' = [fn |-> "join", err |-> sts.err, per_inst |-> sts.per_inst,
                 needswork |-> sts.needswork]
  /\ UNCHANGED <<driverVars, call>>

\* step(state, domain) with call.opr at the offset of the state
CallStep ==
  /\ call.fn = "step"
  /\ ret = NoCall
  /\ LET r == step_match(call.state, Globals({StepPc}, EmptyMap, {}), StepPc,
                         call.opr)
     IN  ret' = [fn |-> "step", outs |-> r.outs, err |-> r.err,
                 returned |-> r.returned, state |-> r.state]
  /\ UNCHANGED <<driverVars, call>>

\* step on a CompareFloating at the offset of the state
CallCompareFloating ==
  /\ call.fn = "fcmp"
  /\ ret = NoCall
  /\ LET r == step_match(call.state, Globals({StepPc}, EmptyMap, {}), StepPc,
                         CompareFloating(1))
     IN  ret' = [fn |-> "compare_floating", outs |-> r.outs, err |-> r.err]
  /\ UNCHANGED <<driverVars, call>>

\* step on the Ifz that follows, called on the successor of the comparison
CallFloatBranch ==
  /\ call.fn = "fcmp"
  /\ ret.fn = "compare_floating"
  /\ Len(ret.outs) = 1
  /\ LET st == ret.outs[1].st
         r == step_match(st, Globals({StepPc, StepPc + 1}, EmptyMap, {}),
                         StepPc + 1, Ifz(call.cond, FloatTarget))
     IN  ret' = [fn |-> "float_branch", before |-> st, outs |-> r.outs,
                 err |-> r.err]
  /\ UNCHANGED <<driverVars, call>>

NextStep ==
  CallStateSetJoin \/ CallStep \/ CallCompareFloating \/ CallFloatBranch

SpecStep == InitStep /\ [][NextStep]_vars

---------------------------------------------------------------------------
(* Properties *)

\* the opcodes step has a case for
HandledOps == {"push", "load", "dup", "binary", "return", "get", "ifz", "new",
               "if", "store", "goto", "incr", "newarray", "array_store",
               "array_load", "arraylength", "compare_floating"}

\* the analysis of the current method is running (the while loop is active)
Running == phase \in {"manystep", "join"}
\* the worklist of the current method has drained
Drained == mi >= 1 /\ needswork = {} /\ states = <<>>
           /\ phase \in {"join", "next", "done"}
\* the analysis of the current method is over and its results are recorded
Finished == mi >= 1 /\ phase \in {"next", "done"}

Range(sq) == {sq[i] : i \in 1 .. Len(sq)}

\* the abstract value of a stack or local entry of a state
ValueOf(st, n) ==
  IF n \in DOMAIN st.constraints THEN st.constraints[n]
  ELSE IF n[1] = "Interval" THEN Interval(n[2], n[3])
  ELSE Interval_empty

\* C1: the per-method loop ends after finitely many step calls: once the
\* iteration budget is used up the loop is not running any more (the
\* worklist has drained, or the method was given up as a soft failure).
C1_LoopEndsWithinBudget == nsteps >= IterationBudget => ~Running

\* a <= b for two values: Interval.__le__, and equality for array lists
ValueLe(a, b) ==
  IF IsInterval(a) /\ IsInterval(b) THEN Interval_le(a, b) ELSE a = b

\* every local and stack slot of s is below-or-equal the value at t
Subsumed(s, t) ==
  LET fs == peek(s)
      ft == peek(t)
  IN  /\ \A i \in DOMAIN fs.locals :
            /\ i \in DOMAIN ft.locals
            /\ ValueLe(ValueOf(s, fs.locals[i]), ValueOf(t, ft.locals[i]))
      /\ Len(fs.stack) = Len(ft.stack)
      /\ \A k \in 1 .. Len(fs.stack) :
            ValueLe(ValueOf(s, fs.stack[k]), ValueOf(t, ft.stack[k]))

\* C2: when the worklist has drained, every successor state that step
\* produces from the state stored at a program point is subsumed by the
\* state stored at the successor's program point.
C2_FixedPoint ==
  Drained =>
    \A p \in DOMAIN per_inst :
      LET r == step(method, per_inst[p], G) IN
      \A k \in 1 .. Len(r.outs) :
        r.outs[k].kind = "state" =>
          /\ peek(r.outs[k].st).pc \in DOMAIN per_inst
          /\ Subsumed(r.outs[k].st, per_inst[peek(r.outs[k].st).pc])

\* C3: constrain is sound: for x in prev and y in other, x is in
\* refined_true when x op y holds and in refined_false when it does not.
C3_ConstrainSound ==
  ret.fn = "constrain" =>
    \A x, y \in TestInts :
      (Contains(call.domain, call.prev, x) /\ Contains(call.domain, call.other, y))
      => /\ ConcreteOp(call.op, x, y)
              => Contains(call.domain, ret.refined_true, x)
         /\ ~ConcreteOp(call.op, x, y)
              => Contains(call.domain, ret.refined_false, x)

\* the state stored at p is about to divide by the value named by its top
\* stack entry
DivAt(p) ==
  /\ opcode_at(method, p).op = "binary"
  /\ opcode_at(method, p).operant \in {"div", "rem"}
  /\ Len(peek(per_inst[p]).stack) >= 2
Divisor(p) == ValueOf(per_inst[p], Last(peek(per_inst[p]).stack))
Terminals(outs) == {outs[k].term : k \in {j \in 1 .. Len(outs) : outs[j].kind = "term"}}
Successors(outs) == {outs[k].st : k \in {j \in 1 .. Len(outs) : outs[j].kind = "state"}}

\* C4: a div or rem step whose divisor may be zero emits the terminal
\* `divide by zero`, and a continuing state exactly when the divisor is not
\* exclusively zero; for `push 1; push 0; idiv; ireturn` the terminals are
\* {divide by zero} and offset 3 is dead.
C4_DivideByZero ==
  /\ Running =>
       \A p \in DOMAIN per_inst :
         (DivAt(p) /\ Interval_contains(Divisor(p), 0)) =>
           LET r == step(method, per_inst[p], G) IN
           /\ "divide by zero" \in Terminals(r.outs)
           /\ (Successors(r.outs) # {}) <=> (Divisor(p) # Interval_abstract({0}))
  /\ (Finished /\ method = "divZero") =>
       /\ final = {"divide by zero"}
       /\ 3 \in Range(unreachable_offset_by_method[method])

BranchAt(p) ==
  LET opr == opcode_at(method, p)
      stack == peek(per_inst[p]).stack
  IN  \/ opr.op = "ifz" /\ Len(stack) >= 1
      \/ opr.op = "if" /\ Len(stack) >= 2
FeasibleSides(p) ==
  LET opr == opcode_at(method, p)
      stack == peek(per_inst[p]).stack
      v1 == IF opr.op = "ifz" THEN ValueOf(per_inst[p], Last(stack))
            ELSE ValueOf(per_inst[p], stack[Len(stack) - 1])
      v2 == IF opr.op = "ifz" THEN Interval_abstract({0})
            ELSE ValueOf(per_inst[p], Last(stack))
  IN  Interval_compare(v1, v2, opr.condition)

\* C6: after step processes a conditional branch, the branch opcode is in
\* op_hit exactly when at least one side is feasible (also when only the
\* true side or only the false side is).
C6_BranchHit ==
  Running =>
    \A p \in DOMAIN per_inst :
      BranchAt(p) =>
        LET r == step(method, per_inst[p], G) IN
        (p \in r.g.op_hit) <=> (FeasibleSides(p) # {})

\* C7: in `push 5; store 1; push 7; store 1; load 1; ireturn` the first
\* store (offset 1), overwritten before any load, is in the dead offsets.
C7_OverwrittenStoreIsDead ==
  (Finished /\ method = "deadStore")
    => 1 \in Range(unreachable_offset_by_method[method])

\* C8: at the end of a method's analysis dead_arg is exactly the set of
\* parameter indices whose entry name arg_i no Load step pushed.
C8_DeadArgs ==
  Finished =>
    dead_args_mapping[method] =
      {i \in 0 .. (Methods[method].params - 1) : Name("arg", i) \notin loaded}

\* C8 witness: the analysis of deadArg (body never loads parameter 0) has
\* ended with dead_arg = {0}, and no Load pushed arg_0
C8_Witness ==
  /\ Finished
  /\ method = "deadArg"
  /\ dead_args_mapping[method] = {0}
  /\ loaded = {}

\* C9: the returned result holds, for every analysed method, its dead
\* parameter indices next to its dead lines.
C9_ResultHasDeadArgs ==
  phase = "done" =>
    \A i \in 1 .. Len(method_list) :
      LET m == method_list[i] IN
      /\ m \in DOMAIN json_data
      /\ "lines" \in DOMAIN json_data[m]
      /\ "args" \in DOMAIN json_data[m]
      /\ json_data[m].args = dead_args_mapping[m]

\* the analysis of a method run to its end, always popping the smallest
\* program point of needswork
RECURSIVE RunInOrder(_, _)
RunInOrder(m, B) ==
  IF B.phase = "crashed" \/ B.nsteps >= MaxSteps THEN B
  ELSE IF B.phase = "manystep"
       THEN RunInOrder(m, DoStep(m, B, SetMin(B.needswork)))
  ELSE IF B.states # <<>> THEN RunInOrder(m, DoJoin(B))
  ELSE IF B.needswork # {} THEN RunInOrder(m, [B EXCEPT !.phase = "manystep"])
  ELSE B

\* what the driver reports for a method from the end of its analysis
Report(m, B) ==
  [dead_offsets |-> Range(not_hit(m, B.g)), dead_args |-> B.g.dead_arg,
   terminals |-> B.final]

\* C10: the dead offsets, dead arguments and terminals reported for a
\* method are the same for every order in which needswork is popped: they
\* are those of the run that pops the program points in ascending order.
C10_OrderIndependent ==
  Finished =>
    [dead_offsets |-> Range(unreachable_offset_by_method[method]),
     dead_args |-> dead_args_mapping[method],
     terminals |-> final]
    = Report(method, RunInOrder(method, BeginMethod(method, Globals({}, EmptyMap, {}))))

\* the closed set of terminal tags
TerminalTags == {"ok", "assertion error", "divide by zero", "negative size",
                 "array out of bounds", "null"}

\* C11: every outcome in the list the driver iterates is a state or one of
\* the six terminal tags, and so is every element of `final` (also when
\* NewArray sees a negative size).
C11_TerminalsAreTags ==
  /\ \A k \in 1 .. Len(states) :
        states[k].kind = "term" => states[k].term \in TerminalTags
  /\ final \subseteq TerminalTags

\* the state stored at p is about to load an element: the index is an
\* Interval and the array name is bound to an array whose length is known
ArrayLoadAt(p) ==
  LET st == per_inst[p]
      stack == peek(st).stack
      n == Len(stack)
  IN  /\ opcode_at(method, p).op = "array_load"
      /\ n >= 2
      /\ stack[n] \in DOMAIN st.constraints
      /\ IsInterval(st.constraints[stack[n]])
      /\ stack[n - 1] \in DOMAIN st.constraints
      /\ ~IsInterval(st.constraints[stack[n - 1]])
      /\ st.constraints[stack[n - 1]].size_val \in DOMAIN st.constraints
      /\ IsInterval(st.constraints[st.constraints[stack[n - 1]].size_val])
ArrayIndex(p) ==
  LET st == per_inst[p] IN st.constraints[Last(peek(st).stack)]
ArrayLengthOf(p) ==
  LET st == per_inst[p]
      stack == peek(st).stack
  IN  st.constraints[st.constraints[stack[Len(stack) - 1]].size_val]
\* some index value is below 0 or not below some length value
MayBeOutside(index, length) ==
  ~is_bottom(index) /\ ~is_bottom(length)
  /\ (Lt(index.lo, Num(0)) \/ Ge(index.hi, length.lo))
\* every index value is below 0 or not below every length value
AllOutside(index, length) ==
  ~is_bottom(index) /\ ~is_bottom(length)
  /\ (Lt(index.hi, Num(0)) \/ Ge(index.lo, length.hi))

\* C12: an ArrayLoad step whose index may lie outside [0, length) emits the
\* terminal `array out of bounds`, and no continuing state when no index
\* value is in bounds.
C12_ArrayLoadOutOfBounds ==
  Running =>
    \A p \in DOMAIN per_inst :
      (ArrayLoadAt(p) /\ MayBeOutside(ArrayIndex(p), ArrayLengthOf(p))) =>
        LET r == step(method, per_inst[p], G) IN
        /\ "array out of bounds" \in Terminals(r.outs)
        /\ AllOutside(ArrayIndex(p), ArrayLengthOf(p)) => Successors(r.outs) = {}

\* C13: compare is sound: for x in a and y in b, the result contains True
\* when x op y holds and False when it does not.
C13_CompareSound ==
  ret.fn = "compare" =>
    \A x, y \in TestInts :
      (Contains(call.domain, call.a, x) /\ Contains(call.domain, call.b, y))
      => /\ ConcreteOp(call.op, x, y) => TRUE \in ret.result
         /\ ~ConcreteOp(call.op, x, y) => FALSE \in ret.result

\* C13 witness: [MinVal, 0] lt [1, MaxVal] was compared and found only true
C13_Witness ==
  /\ ret.fn = "compare"
  /\ call.domain = "Interval"
  /\ call.op = "lt"
  /\ call.a = Interval(Num(MinVal), Num(0))
  /\ call.b = Interval(Num(1), Num(MaxVal))
  /\ ret.result = {TRUE}

\* the concrete x + y, x - y, x * y
ConcreteArith(opn, x, y) ==
  CASE opn = "add" -> x + y
    [] opn = "sub" -> x - y
    [] opn = "mul" -> x * y

\* C14: add, sub and mul are sound: for x in xs and y in ys the concrete
\* result is contained in op(abstract(xs), abstract(ys)).
C14_ArithSound ==
  (ret.fn = "abstract" /\ call.opn \in {"add", "sub", "mul"}) =>
    \A x \in call.xs, y \in call.ys :
      Contains(call.domain, ret.result, ConcreteArith(call.opn, x, y))

\* C14 witness: the product of the abstractions of {MinVal, 1} and
\* {MinVal, MaxVal} was computed
C14_Witness ==
  /\ ret.fn = "abstract"
  /\ call.domain = "Interval"
  /\ call.opn = "mul"
  /\ call.xs = {MinVal, 1}
  /\ call.ys = {MinVal, MaxVal}
  /\ ret.result = Interval(Num(MinVal * MaxVal), Num(MinVal * MinVal))

\* the quotient of the bytecode idiv: truncated toward zero
TruncDiv(x, y) ==
  LET q == Abs(x) \div Abs(y)
  IN  IF (x < 0) # (y < 0) THEN -q ELSE q

\* C15: div is sound for the integer quotient: for x in a and y # 0 in b,
\* the quotient of x by y truncated toward zero is contained in div(a, b).
C15_DivSound ==
  (ret.fn = "arith" /\ call.opn = "div") =>
    \A x, y \in TestInts :
      (Contains(call.domain, call.a, x) /\ Contains(call.domain, call.b, y)
       /\ y # 0)
      => Contains(call.domain, ret.result, TruncDiv(x, y))

\* C16: abstract is sound: every member of a finite set is contained in the
\* abstraction of the set.
C16_AbstractSound ==
  ret.fn = "abstract" =>
    /\ \A x \in call.xs : Contains(call.domain, ret.ax, x)
    /\ \A y \in call.ys : Contains(call.domain, ret.ay, y)

\* C16 witness: {MinVal, MaxVal} was abstracted to the interval between them
C16_Witness ==
  /\ ret.fn = "abstract"
  /\ call.domain = "Interval"
  /\ call.xs = {MinVal, MaxVal}
  /\ ret.ax = Interval(Num(MinVal), Num(MaxVal))
  /\ Interval_contains(ret.ax, 0)

\* C17: abstract distributes over join: abstract(xs) | abstract(ys) equals
\* abstract(xs union ys), also when xs or ys is empty.
C17_AbstractDistributes ==
  (ret.fn = "abstract" /\ call.opn = "or") => ret.result = ret.of_union

\* C17 witness: the abstraction of the empty set was joined with that of
\* {MaxVal}
C17_Witness ==
  /\ ret.fn = "abstract"
  /\ call.domain = "Interval"
  /\ call.opn = "or"
  /\ call.xs = {}
  /\ call.ys = {MaxVal}
  /\ ret.result = Interval(Num(MaxVal), Num(MaxVal))

\* C18: join is a least upper bound: a <= a | b, b <= a | b, and a | b <= c
\* whenever a <= c and b <= c (bottom included).
C18_JoinIsLub ==
  ret.fn = "join" =>
    /\ ret.a_le_joined
    /\ ret.b_le_joined
    /\ (ret.a_le_c /\ ret.b_le_c) => ret.joined_le_c

\* C18 witness: bottom was joined with [0, 0] and compared with top
C18_Witness ==
  /\ ret.fn = "join"
  /\ call.domain = "Interval"
  /\ call.a = Interval_empty
  /\ call.b = Interval(Num(0), Num(0))
  /\ call.c = Interval_top
  /\ ret.joined = call.b
  /\ ret.a_le_c /\ ret.b_le_c /\ ret.joined_le_c

\* C19: the arithmetic operations are monotone: for a <= a2 and b <= b2,
\* op(a, b) <= op(a2, b2).
C19_ArithMonotone ==
  ret.fn = "arith" =>
    \A a2, b2 \in Elems(call.domain) :
      (Leq(call.domain, call.a, a2) /\ Leq(call.domain, call.b, b2))
      => Leq(call.domain, ret.result, DomainOp(call.domain, call.opn, a2, b2))

\* C20: when the analysis of the next method starts, op_hit, dead_store and
\* dead_arg hold no entry of an earlier method: the analysis starts from the
\* state it starts from when the method is analysed alone.
C20_GlobalsClearedBetweenMethods ==
  [][StartMethod =>
       /\ op_hit = {} /\ dead_store = EmptyMap /\ dead_arg = {}
       /\ A' = BeginMethod(method', Globals({}, EmptyMap, {}))]_vars

\* C20 witness: identity starts after deadArg, which ended with dead_arg = {0}
C20_Witness ==
  /\ mi = 2
  /\ method_list = <<"deadArg", "identity">>
  /\ phase = "manystep"
  /\ nsteps = 0
  /\ "deadArg" \in DOMAIN dead_args_mapping
  /\ dead_args_mapping["deadArg"] = {0}
  /\ op_hit = {}
  /\ dead_store = EmptyMap
  /\ dead_arg = {0}

\* C21: the methods call_graph returns as not called are exactly the
\* methods of the target class other than main that are not reachable from
\* the entry method through the call graph (a method called only from
\* unreachable methods is among them).
C21_NotCalledIsUnreachable ==
  ret.fn = "call_graph" =>
    ret.not_called =
      {MethodIdString(m) :
         m \in (DeclaredMethods \ {"main"})
               \ collect_reachable(call.bodies, {call.entry})}

\* C22: the source text debloat_from_spec writes holds no line of a method
\* named in not_called_methods.
C22_NotCalledMethodsRemoved ==
  (ret.fn = "debloat_from_spec" /\ call.not_called # {"None"}) =>
    \A i \in 1 .. Len(ret.written) :
      ret.written[i].method \notin {mid[2] : mid \in call.not_called}

\* C23: Response.parse never raises; it returns predictions for exactly the
\* lines `query;prediction` whose query is in QUERIES, and every other line
\* (no or several separators, unknown query, unparsable prediction) is
\* skipped.
C23_ParseNeverRaises ==
  ret.fn = "parse" =>
    /\ ~ret.raised
    /\ DOMAIN ret.predictions =
         {call.out[i][1] :
            i \in {j \in 1 .. Len(call.out) :
                     /\ Len(call.out[j]) = 2
                     /\ call.out[j][1] \in QUERIES
                     /\ call.out[j][2].isfloat}}

\* every opcode of the method has a case in step
OnlyHandledOps(m) ==
  \A k \in 1 .. Len(Methods[m].code) : Methods[m].code[k].op \in HandledOps

\* C24: for a method built only from opcodes step handles and every tuple
\* of concrete integer arguments, each offset the concrete interpreter
\* executes is absent from the offsets the analysis finds unreached (not in
\* op_hit) when the worklist has drained.
C24_ExecutedIsNotUnreached ==
  (phase = "join" /\ states = <<>> /\ needswork = {} /\ OnlyHandledOps(method))
    => \A args \in [0 .. (Methods[method].params - 1) -> Ints] :
         concrete_executed(method, args) \cap (Offsets(method) \ op_hit) = {}

\* the names the top frame's stack slots and locals and the heap cells of a
\* state refer to
Referenced(st) ==
  Range(peek(st).stack)
  \cup {peek(st).locals[i] : i \in DOMAIN peek(st).locals}
  \cup {st.heap[a] : a \in DOMAIN st.heap}

\* the next step of the state stored at p mints a name (Push, Binary)
MintsAt(p) ==
  \/ opcode_at(method, p).op = "push"
  \/ opcode_at(method, p).op = "binary" /\ Len(peek(per_inst[p]).stack) >= 2
\* f"stack_{len(frame.stack.items)}"
MintedAt(p) == Name("stack", Len(peek(per_inst[p]).stack))

\* C25: the name a Push or Binary step mints is different from every name
\* bound in the constraint store of the state it steps; in particular it is
\* no name a stack slot, local or heap cell of that state refers to.
C25_MintedNamesAreFresh ==
  phase = "manystep" =>
    \A p \in needswork :
      MintsAt(p) =>
        /\ MintedAt(p) \notin DOMAIN per_inst[p].constraints
        /\ MintedAt(p) \notin Referenced(per_inst[p])

\* every name a state refers to is a key of its constraint store
NamesBound(st) == Referenced(st) \subseteq DOMAIN st.constraints

\* C26: in every state stored in the state set and in every successor state
\* step produced, each entry of the locals, each stack slot and each heap
\* cell is a name that is a key of the state's constraint store (also after
\* Get, ArrayLoad and ArrayLength steps).
C26_NamesAreBound ==
  /\ \A p \in DOMAIN per_inst : NamesBound(per_inst[p])
  /\ \A k \in 1 .. Len(states) :
        states[k].kind = "state" => NamesBound(states[k].st)

\* C27: joining a state s into the state set at p = s.pc: when p has no stored
\* state, s is stored and p is added to needswork; otherwise, when the join of
\* the stored state with s differs from the stored state, the join replaces it
\* and p is added to needswork, and when it does not differ per_inst and
\* needswork are left unchanged.
JoinIncoming == Head(states).st
JoinPc == peek(JoinIncoming).pc
C27_JoinStep ==
  (JoinOne /\ Head(states).kind = "state") =>
    IF JoinPc \notin DOMAIN per_inst
    THEN /\ per_inst' = Put(per_inst, JoinPc, JoinIncoming)
         /\ needswork' = needswork \cup {JoinPc}
    ELSE LET j == AState_ior(per_inst[JoinPc], JoinIncoming) IN
         j.err = "" =>
           IF j.st # per_inst[JoinPc]
           THEN /\ per_inst' = Put(per_inst, JoinPc, j.st)
                /\ needswork' = needswork \cup {JoinPc}
           ELSE UNCHANGED <<per_inst, needswork>>
C27_StateSetJoin == [][C27_JoinStep]_vars

\* spin after the back edge to offset 0 was joined without a change: offset 0
\* is stored, was processed, and is not back in needswork
C27_Witness ==
  /\ phase = "join"
  /\ method = "spin"
  /\ nsteps = 2
  /\ Len(states) = 1
  /\ 0 \in DOMAIN per_inst
  /\ needswork = {}

\* C28: during a method analysis the state stored at a program point only
\* grows: after a step or a join, every local index and every stack slot of
\* per_inst[p] is still there and is bound to a value above or equal to the
\* value it was bound to before.
C28_GrowStep ==
  (StepOne \/ JoinOne) =>
    \A p \in DOMAIN per_inst :
      p \in DOMAIN per_inst' /\ Subsumed(per_inst[p], per_inst'[p])
C28_StoredStateOnlyGrows == [][C28_GrowStep]_vars

\* C29: applying step to the state stored at a program point leaves every
\* stored state as it was: heap, constraints, and each frame's locals, stack
\* and pc.
C29_StepKeepsStored ==
  StepOne => \A p \in DOMAIN per_inst : per_inst'[p] = per_inst[p]
C29_StepLeavesStoredState == [][C29_StepKeepsStored]_vars

\* C30: for two states s and t with the same pc, the same number of frames
\* and equal stack depths, s |= t completes, and afterwards the value s binds
\* at every heap address, local index and stack index of s or t is an upper
\* bound of the values s and t bound there before.
HeapBelow(s, t) ==
  \A a \in DOMAIN s.heap :
    /\ a \in DOMAIN t.heap
    /\ ValueLe(ValueOf(s, s.heap[a]), ValueOf(t, t.heap[a]))
Joinable(s, t) ==
  /\ Len(s.frames) = Len(t.frames)
  /\ peek(s).pc = peek(t).pc
  /\ Len(peek(s).stack) = Len(peek(t).stack)
C30_JoinCompletesAsUpperBound ==
  (/\ phase = "join"
   /\ states # <<>>
   /\ Head(states).kind = "state"
   /\ JoinPc \in DOMAIN per_inst
   /\ Joinable(per_inst[JoinPc], JoinIncoming))
    => LET s == per_inst[JoinPc]
           t == JoinIncoming
           j == AState_ior(s, t)
       IN  /\ j.err = ""
           /\ Subsumed(s, j.st) /\ Subsumed(t, j.st)
           /\ HeapBelow(s, j.st) /\ HeapBelow(t, j.st)

\* C31: when the state set is given a state whose operand-stack depth differs
\* from that of the state stored at the same pc, the join fails with an error
\* and per_inst and needswork are as before the call.
DepthOf(st) == Len(peek(st).stack)
C31_DepthMismatchRejected ==
  (ret.fn = "join" /\ DepthOf(call.stored) # DepthOf(call.astate)) =>
    /\ ret.err # ""
    /\ ret.per_inst = Put(EmptyMap, StepPc, call.stored)
    /\ ret.needswork = call.needswork

\* a join of a state of depth 1 into a stored state of depth 2 that differs
\* from it in the value of arg_0 was attempted
C31_Witness ==
  /\ ret.fn = "join"
  /\ DepthOf(call.stored) = 2
  /\ DepthOf(call.astate) = 1
  /\ call.stored.constraints[Name("arg", 0)] # call.astate.constraints[Name("arg", 0)]
  /\ ret.err = "AssertionError"

\* C32: an Ifz step on name n emits a successor for exactly the sides in
\* compare(constraints[n], abstract({0}), cond): the true side has pc = target
\* and binds n to the true refinement, the false side has pc + 1 and binds n
\* to the false refinement; for neverJump (push 1; ifz eq 4) only the
\* fall-through is emitted and the offsets 4 and 5 are reported unreachable.
SteppedPc == CHOOSE p \in needswork : p \notin needswork'
IfzSides(st, opr) ==
  LET f == peek(st)
      n == Last(f.stack)
      v == st.constraints[n]
      zero == Interval_abstract({0})
      cs == Interval_constrain(v, zero, opr.condition)
      side(b) ==
        [st EXCEPT
           !.frames = <<PerVarFrame(f.locals, Front(f.stack),
                                    IF b THEN opr.target ELSE f.pc + 1)>>,
           !.constraints = Put(st.constraints, n, IF b THEN cs[1] ELSE cs[2])]
  IN  {side(b) : b \in Interval_compare(v, zero, opr.condition)}
IfzOnName(st, opr) ==
  /\ opr.op = "ifz"
  /\ Len(peek(st).stack) > 0
  /\ Last(peek(st).stack) \in DOMAIN st.constraints
  /\ IsInterval(st.constraints[Last(peek(st).stack)])
C32_IfzStep ==
  (StepOne /\ IfzOnName(per_inst[SteppedPc], opcode_at(method, SteppedPc))) =>
    LET new == SubSeq(states', Len(states) + 1, Len(states'))
        sides == IfzSides(per_inst[SteppedPc], opcode_at(method, SteppedPc))
    IN  /\ Len(new) = Cardinality(sides)
        /\ \A k \in 1 .. Len(new) : new[k].kind = "state"
        /\ {new[k].st : k \in 1 .. Len(new)} = sides
C32_NeverJumpDead ==
  "neverJump" \in DOMAIN unreachable_offset_by_method =>
    unreachable_offset_by_method["neverJump"] = <<4, 5>>
C32_IfzEmitsComparedSides == [][C32_IfzStep]_vars /\ []C32_NeverJumpDead

\* neverJump after the step of its ifz: one successor, the fall-through
C32_Witness ==
  /\ phase = "join"
  /\ method = "neverJump"
  /\ nsteps = 2
  /\ Len(states) = 1
  /\ states[1].kind = "state"
  /\ peek(states[1].st).pc = 2

\* C33: in every state a method analysis reaches, the step of an Ifz or an
\* If emits at least one successor state.
BranchOffsets == {p \in needswork : opcode_at(method, p).op \in {"ifz", "if"}}
C33_BranchEmitsSuccessor ==
  phase = "manystep" =>
    \A p \in BranchOffsets :
      LET r == step(method, per_inst[p], G)
      IN  \E k \in 1 .. Len(r.outs) : r.outs[k].kind = "state"

\* C34: an If step on names n1 and n2 refines both names on each emitted
\* side: in the true successor n1 and n2 are bound to their refinements under
\* cond holding, in the false successor to their refinements under cond
\* failing.
\* n1 cond n2 read from the side of n2
Mirrored(cond) ==
  CASE cond = "lt" -> "gt" [] cond = "gt" -> "lt"
    [] cond = "le" -> "ge" [] cond = "ge" -> "le"
    [] OTHER -> cond
IfOnNames(st, opr) ==
  /\ opr.op = "if"
  /\ Len(peek(st).stack) >= 2
  /\ \A k \in {Len(peek(st).stack) - 1, Len(peek(st).stack)} :
        /\ peek(st).stack[k] \in DOMAIN st.constraints
        /\ IsInterval(st.constraints[peek(st).stack[k]])
  /\ peek(st).stack[Len(peek(st).stack) - 1] # Last(peek(st).stack)
BothRefined(st, opr, succ) ==
  LET stack == peek(st).stack
      n1 == stack[Len(stack) - 1]
      n2 == Last(stack)
      v1 == st.constraints[n1]
      v2 == st.constraints[n2]
      side == IF peek(succ).pc = opr.target THEN 1 ELSE 2
  IN  /\ succ.constraints[n1] = Interval_constrain(v1, v2, opr.condition)[side]
      /\ succ.constraints[n2] =
           Interval_constrain(v2, v1, Mirrored(opr.condition))[side]
C34_IfStep ==
  (StepOne /\ IfOnNames(per_inst[SteppedPc], opcode_at(method, SteppedPc))) =>
    \A k \in (Len(states) + 1) .. Len(states') :
      BothRefined(per_inst[SteppedPc], opcode_at(method, SteppedPc),
                  states'[k].st)
C34_IfRefinesBothNames == [][C34_IfStep]_vars

\* C35: a write to local i (Incr i,k or Store i) changes only the abstract
\* value of local i: every operand-stack slot of the successor has the
\* abstract value it had before the step, also when the slot holds the name
\* local i had.
WritesLocal(opr) == opr.op \in {"incr", "store"}
KeptDepth(opr, depth) == IF opr.op = "store" THEN depth - 1 ELSE depth
C35_LocalWriteKeepsStack ==
  (ret.fn = "step" /\ WritesLocal(call.opr)) =>
    \A k \in 1 .. Len(ret.outs) :
      ret.outs[k].kind = "state" =>
        \A d \in 1 .. KeptDepth(call.opr, DepthOf(call.state)) :
          ValueOf(ret.outs[k].st, peek(ret.outs[k].st).stack[d])
            = ValueOf(call.state, peek(call.state).stack[d])

\* C36: each successor state of a step has the operand-stack depth of the
\* input minus the operands the opcode consumes plus the results it
\* produces: Push +1, Binary -1, Store -1, Ifz -1, If -2, ArrayStore -3,
\* ArrayLoad -1, ArrayLength 0.
StackEffect(op) ==
  CASE op = "push" -> 1
    [] op \in {"binary", "store", "ifz", "array_load"} -> -1
    [] op = "if" -> -2
    [] op = "array_store" -> -3
    [] op = "arraylength" -> 0
HasStackEffect(op) ==
  op \in {"push", "binary", "store", "ifz", "if", "array_store", "array_load",
          "arraylength"}
C36_DepthStep ==
  (StepOne /\ HasStackEffect(opcode_at(method, SteppedPc).op)) =>
    \A k \in (Len(states) + 1) .. Len(states') :
      states'[k].kind = "state" =>
        DepthOf(states'[k].st) =
          DepthOf(per_inst[SteppedPc])
            + StackEffect(opcode_at(method, SteppedPc).op)
C36_StackDepthPerOpcode == [][C36_DepthStep]_vars

\* C37: for a branch whose operand is a FloatCmpResult with relation set
\* Rels, the true successor is emitted iff some r in Rels satisfies cond
\* against 0 and the false successor iff some r in Rels does not; on each
\* emitted side the left operand name is bound to the join, over the
\* relations of that side, of the true refinement constrain(left, right, op)
\* with op = lt, eq, gt for r = -1, 0, 1.
RelOp(r) == IF r = -1 THEN "lt" ELSE IF r = 0 THEN "eq" ELSE "gt"
\* the join of a set of intervals
JoinOf(S) ==
  LET live == {v \in S : ~is_bottom(v)} IN
  IF live = {} THEN Interval_empty
  ELSE Interval(CHOOSE x \in {v.lo : v \in live} :
                  \A v \in live : Le(x, v.lo),
                CHOOSE x \in {v.hi : v \in live} :
                  \A v \in live : Ge(x, v.hi))
SameElement(v, w) ==
  IsInterval(v) /\ IsInterval(w) /\ ((is_bottom(v) /\ is_bottom(w)) \/ v = w)
FloatSideOk(cmp, side_rels, pc) ==
  LET left == call.state.constraints[cmp.left_name]
      right == call.state.constraints[cmp.right_name]
      sides == {k \in 1 .. Len(ret.outs) :
                  ret.outs[k].kind = "state" /\ peek(ret.outs[k].st).pc = pc}
  IN  /\ (sides # {}) <=> (side_rels # {})
      /\ \A k \in sides :
            SameElement(ret.outs[k].st.constraints[cmp.left_name],
                        JoinOf({Interval_constrain(left, right, RelOp(r))[1] :
                                  r \in side_rels}))
FlowSucc(m, o) ==
  LET opr == Methods[m].code[o + 1]
      nxt == {o + 1} \cap Offsets(m)
  IN  IF opr.op \in {"return", "throw"} THEN {}
      ELSE IF opr.op = "goto" THEN {opr.target} \cap Offsets(m)
      ELSE IF opr.op \in {"ifz", "if"} THEN nxt \cup ({opr.target} \cap Offsets(m))
      ELSE nxt
\* the offsets reached from the set `seen` along paths that stop at a
\* Store to local i
RECURSIVE FlowReach(_, _, _)
FlowReach(m, i, seen) ==
  LET open == {o \in seen : Methods[m].code[o + 1] # Store(i)}
      more == seen \cup UNION {FlowSucc(m, o) : o \in open}
  IN  IF more = seen THEN seen ELSE FlowReach(m, i, more)
\* a Load of local i is reached from the Store at offset o before another
\* Store to i
LoadFollows(m, o, i) ==
  \E q \in FlowReach(m, i, FlowSucc(m, o)) : Methods[m].code[q + 1] = Load(i)
\* the offsets the driver adds to the dead offsets as dead stores
DeadStoreOffsets(m, g) ==
  {idx \in Offsets(m) : \E i \in DOMAIN g.dead_store : g.dead_store[i] = idx}
\* a Store is reported dead only if no Load of its local follows it
C38_DeadStoreHasNoLoad ==
  \A i \in DOMAIN dead_store : ~LoadFollows(method, dead_store[i], i)
\* the dead stores are those of the run that pops the program points in
\* ascending order
C38_DeadStoreSameInEveryOrder ==
  DeadStoreOffsets(method, G)
    = DeadStoreOffsets(method,
        RunInOrder(method, BeginMethod(method, Globals({}, EmptyMap, {}))).g)
\* C38: when the worklist of a method has drained, a Store to local i is
\* among the dead stores only if no control-flow path from it reaches a
\* Load of i before another Store to i, and the dead stores are the same
\* for every order in which the program points were processed.
C38_DeadStoreVerdict ==
  (Drained /\ phase = "join" /\ nsteps < MaxSteps) =>
    C38_DeadStoreHasNoLoad /\ C38_DeadStoreSameInEveryOrder


\* the offsets of method m that its offset-to-line table maps to a line
OffsetsOfLine(m, line) ==
  {o \in Offsets(m) : line \in offset_to_lines(LinesTable(m), o)}
\* C39: a line is among the dead lines returned for a method only if
\* every offset that the method's line table maps to that line is in the
\* dead index set given for the method.
C39_DeadLineHasNoLiveOffset ==
  phase = "done" =>
    \A name \in DOMAIN json_data :
      \A line \in Range(json_data[name].lines) :
        OffsetsOfLine(name, line)
          \subseteq Range(unreachable_offset_by_method[name])

=============================================================================
